---- MODULE Spec2Model ----
(***************************************************************************)
(* Model of BacktestEngine.run_backtest (src/backtesting/engine.py): the   *)
(* construction of the frame, the vectorised signal-to-position            *)
(* translation, the net return series, the equity curves, the scalar       *)
(* statistics and the trade-ledger scan.                                   *)
(*                                                                         *)
(* Prices and returns are exact rationals (the reals the floats stand      *)
(* for); a pandas NaN is the rational value with denominator zero.         *)
(* Statistics that hold a square root or a fractional power are carried    *)
(* exactly, in the forms defined with them.                                *)
(* Period indices are the 0-based indices of the Python code; the k-th     *)
(* period of a series s is s[k + 1].                                       *)
(***************************************************************************)
EXTENDS Integers, Sequences, FiniteSets, TLC

(***************************************************************************)
(* Bounds of the explored inputs.                                          *)
(***************************************************************************)
MaxLen == 3

CloseValues == {100, 110}
IndicatorValues == {0, 1}

(***************************************************************************)
(* Natural numbers of any size: little-endian sequences of limbs in        *)
(* 0 .. Base-1 without a leading zero limb; zero is <<>>.                  *)
(***************************************************************************)
Base == 10 ^ 4

RECURSIVE BigOf(_)
BigOf(n) == IF n = 0 THEN <<>> ELSE <<n % Base>> \o BigOf(n \div Base)

BigHead(a) == IF a = <<>> THEN 0 ELSE Head(a)
BigTail(a) == IF a = <<>> THEN <<>> ELSE Tail(a)

RECURSIVE BigAddC(_, _, _)
BigAddC(a, b, c) ==
    IF a = <<>> /\ b = <<>>
    THEN (IF c = 0 THEN <<>> ELSE <<c>>)
    ELSE LET x == BigHead(a) + BigHead(b) + c
         IN  <<x % Base>> \o BigAddC(BigTail(a), BigTail(b), x \div Base)

BigAdd(a, b) == BigAddC(a, b, 0)

RECURSIVE BigStrip(_)
BigStrip(a) ==
    IF a = <<>> THEN <<>>
    ELSE IF a[Len(a)] = 0 THEN BigStrip(SubSeq(a, 1, Len(a) - 1))
    ELSE a

RECURSIVE BigCmpFrom(_, _, _)
BigCmpFrom(a, b, i) ==
    IF i = 0 THEN 0
    ELSE IF a[i] < b[i] THEN -1
    ELSE IF a[i] > b[i] THEN 1
    ELSE BigCmpFrom(a, b, i - 1)

\* -1, 0 or 1 as a < b, a = b, a > b
BigCmp(a, b) ==
    IF Len(a) < Len(b) THEN -1
    ELSE IF Len(a) > Len(b) THEN 1
    ELSE BigCmpFrom(a, b, Len(a))

RECURSIVE BigSubB(_, _, _)
BigSubB(a, b, br) ==
    IF a = <<>> THEN <<>>
    ELSE LET x == Head(a) - BigHead(b) - br
         IN  IF x < 0
             THEN <<x + Base>> \o BigSubB(Tail(a), BigTail(b), 1)
             ELSE <<x>> \o BigSubB(Tail(a), BigTail(b), 0)

\* a - b for a >= b
BigSub(a, b) == BigStrip(BigSubB(a, b, 0))

RECURSIVE BigMulSmallC(_, _, _)
BigMulSmallC(a, k, c) ==
    IF a = <<>>
    THEN (IF c = 0 THEN <<>> ELSE <<c>>)
    ELSE LET x == Head(a) * k + c
         IN  <<x % Base>> \o BigMulSmallC(Tail(a), k, x \div Base)

\* a * k for a limb k
BigMulSmall(a, k) == IF k = 0 THEN <<>> ELSE BigMulSmallC(a, k, 0)

BigShift(a) == IF a = <<>> THEN <<>> ELSE <<0>> \o a

RECURSIVE BigMul(_, _)
BigMul(a, b) ==
    IF a = <<>> \/ b = <<>> THEN <<>>
    ELSE IF a = <<1>> THEN b
    ELSE IF Len(b) = 1 THEN BigMulSmall(a, b[1])
    ELSE BigAdd(BigMulSmall(a, Head(b)), BigShift(BigMul(a, Tail(b))))

(***************************************************************************)
(* Rationals: [neg, num, den] stands for (-1)^neg * num / den, den > 0.    *)
(* den = 0 is NaN.  Values are not reduced; REq and RLt compare them.      *)
(***************************************************************************)
NaN == [neg |-> FALSE, num |-> <<>>, den |-> <<>>]

IsNaN(x) == x.den = <<>>

RMake(neg, num, den) ==
    [neg |-> (neg /\ num # <<>>), num |-> num, den |-> den]

RInt(n) ==
    IF n < 0 THEN RMake(TRUE, BigOf(0 - n), BigOf(1))
    ELSE RMake(FALSE, BigOf(n), BigOf(1))

RZero == RInt(0)
ROne == RInt(1)

RNeg(x) == IF IsNaN(x) THEN NaN ELSE RMake(~x.neg, x.num, x.den)

RAbs(x) == IF IsNaN(x) THEN NaN ELSE RMake(FALSE, x.num, x.den)

RAdd(x, y) ==
    IF IsNaN(x) \/ IsNaN(y) THEN NaN
    ELSE IF x.num = <<>> THEN y
    ELSE IF y.num = <<>> THEN x
    ELSE LET same == x.den = y.den
             a   == IF same THEN x.num ELSE BigMul(x.num, y.den)
             b   == IF same THEN y.num ELSE BigMul(y.num, x.den)
             d   == IF same THEN x.den ELSE BigMul(x.den, y.den)
         IN  IF x.neg = y.neg THEN RMake(x.neg, BigAdd(a, b), d)
             ELSE IF BigCmp(a, b) >= 0 THEN RMake(x.neg, BigSub(a, b), d)
             ELSE RMake(y.neg, BigSub(b, a), d)

RSub(x, y) == RAdd(x, RNeg(y))

RMul(x, y) ==
    IF IsNaN(x) \/ IsNaN(y) THEN NaN
    ELSE IF x.num = <<>> \/ y.num = <<>> THEN RZero
    ELSE RMake(x.neg # y.neg, BigMul(x.num, y.num), BigMul(x.den, y.den))

\* x / y; a zero divisor gives NaN (the inputs' closes are positive)
RDiv(x, y) ==
    IF IsNaN(x) \/ IsNaN(y) \/ y.num = <<>> THEN NaN
    ELSE IF x.num = <<>> THEN RZero
    ELSE IF x = y THEN ROne
    ELSE RMake(x.neg # y.neg, BigMul(x.num, y.den), BigMul(x.den, y.num))

\* numeric equality; as for floats, NaN equals nothing
REq(x, y) ==
    /\ ~IsNaN(x)
    /\ ~IsNaN(y)
    /\ x.neg = y.neg
    /\ \/ x.num = y.num /\ x.den = y.den
       \/ BigMul(x.num, y.den) = BigMul(y.num, x.den)

\* |x| < |y| for two values that are not NaN
RAbsLt(x, y) ==
    IF x.den = y.den THEN BigCmp(x.num, y.num) < 0
    ELSE BigCmp(BigMul(x.num, y.den), BigMul(y.num, x.den)) < 0

\* x < y; false when either is NaN
RLt(x, y) ==
    /\ ~IsNaN(x)
    /\ ~IsNaN(y)
    /\ IF x.neg # y.neg THEN x.neg
       ELSE IF x.neg THEN RAbsLt(y, x)
       ELSE RAbsLt(x, y)

RIsZero(x) == ~IsNaN(x) /\ x.num = <<>>

\* Series.fillna(0) on one value
FillNa0(x) == IF IsNaN(x) THEN RZero ELSE x

(***************************************************************************)
(* Strategy configuration (run_backtest, lines 14-15).                     *)
(***************************************************************************)
initial_capital == 1000000
CommissionNum == 2
CommissionDen == 1000

\* commission = 0.002
commission == RDiv(RInt(CommissionNum), RInt(CommissionDen))

\* trading days per year (lines 54, 61, 72)
TradingDays == 252

\* the scale and the default of confidence_ratio (lines 100-101)
ConfidenceScale == 1000
DefaultConfidence == 50

(***************************************************************************)
(* The vectorised columns of df, as operators on whole series.             *)
(***************************************************************************)
\* faulty variant of TargetOf: a tie counts as long
TargetOfTieLong(m, s) == [t \in DOMAIN m |-> IF m[t] >= s[t] THEN 1 ELSE 0]

\* np.where(df['MACD'] > df['Signal'], 1, 0)
TargetOf(m, s) == [t \in DOMAIN m |-> IF m[t] > s[t] THEN 1 ELSE 0]

\* faulty variant of ShiftFill: the same period's target, without the lag
ShiftFillNoLag(target) == target

\* df['Target'].shift(1).fillna(0)
ShiftFill(target) ==
    [t \in DOMAIN target |-> IF t = 1 THEN 0 ELSE target[t - 1]]

\* faulty variant of PctChange: the change relative to the new close
PctChangeOfNewClose(c) ==
    [t \in DOMAIN c |->
        IF t = 1 THEN NaN ELSE RSub(ROne, RDiv(RInt(c[t - 1]), RInt(c[t])))]

\* df['Close'].pct_change(): Close / Close.shift(1) - 1, NaN at the first period
PctChange(c) ==
    [t \in DOMAIN c |->
        IF t = 1 THEN NaN ELSE RSub(RDiv(RInt(c[t]), RInt(c[t - 1])), ROne)]

\* df['Position'] * df['Returns']
RawStrategyReturns(pos, ret) ==
    [t \in DOMAIN pos |-> RMul(RInt(pos[t]), ret[t])]

\* faulty variant of DiffAbs: the signed difference, without abs()
DiffNoAbs(pos) ==
    [t \in DOMAIN pos |->
        IF t = 1 THEN NaN ELSE RInt(pos[t] - pos[t - 1])]

\* df['Position'].diff().abs(): NaN at the first period
DiffAbs(pos) ==
    [t \in DOMAIN pos |->
        IF t = 1 THEN NaN ELSE RAbs(RInt(pos[t] - pos[t - 1]))]

\* df['Position_Change'] * commission
CommissionCost(chg) == [t \in DOMAIN chg |-> RMul(chg[t], commission)]

\* df['Strategy_Returns'] - df['Commission_Cost']
NetStrategyReturns(sr, cc) == [t \in DOMAIN sr |-> RSub(sr[t], cc[t])]

\* faulty variant of FillNa: the series as it is
FillNaNone(s) == s

\* Series.fillna(0)
FillNa(s) == [t \in DOMAIN s |-> FillNa0(s[t])]

\* Series.cumprod(), left to right: out holds the products of s[1..i-1]
RECURSIVE CumProdFrom(_, _, _, _)
CumProdFrom(s, n, i, out) ==
    IF i > n THEN out
    ELSE CHOOSE r \in
            {CumProdFrom(s, n, i + 1, Append(out, x)) :
                x \in {IF i = 1 THEN s[1] ELSE RMul(out[i - 1], s[i])}} : TRUE

CumProd(s) == CumProdFrom(s, Cardinality(DOMAIN s), 1, <<>>)

\* faulty variant of CumulativeReturns: without fillna(0)
CumulativeReturnsNoFill(s) ==
    CumProd([t \in DOMAIN s |-> RAdd(ROne, s[t])])

\* (1 + s.fillna(0)).cumprod()
CumulativeReturns(s) ==
    CumProd([t \in DOMAIN s |-> RAdd(ROne, FillNa0(s[t]))])

\* (initial_capital * cumulative).tolist()
EquityOf(cum) == [t \in DOMAIN cum |-> RMul(RInt(initial_capital), cum[t])]

\* the series s as a tuple, every element evaluated once
RECURSIVE TupleFrom(_, _, _, _)
TupleFrom(s, n, i, out) ==
    IF i > n THEN out
    ELSE CHOOSE r \in
            {TupleFrom(s, n, i + 1, Append(out, x)) : x \in {s[i]}} : TRUE

TupleOf(s) == TupleFrom(s, Cardinality(DOMAIN s), 1, <<>>)

(***************************************************************************)
(* Drawdown (lines 67-70 and 82-84).                                       *)
(***************************************************************************)
\* the largest of s[1..t]
RECURSIVE MaxTo(_, _)
MaxTo(s, t) ==
    IF t = 1 THEN s[1]
    ELSE CHOOSE r \in
            {IF RLt(m, s[t]) THEN s[t] ELSE m : m \in {MaxTo(s, t - 1)}} : TRUE

\* faulty variant of ExpandingMax: the maximum of the whole series
ExpandingMaxWhole(s) == [t \in DOMAIN s |-> MaxTo(s, Cardinality(DOMAIN s))]

\* s.expanding(min_periods=1).max()
ExpandingMax(s) == [t \in DOMAIN s |-> MaxTo(s, t)]

\* (equity / peak - 1) * 100
DrawdownOf(eq, peak) ==
    [t \in DOMAIN eq |-> RMul(RSub(RDiv(eq[t], peak[t]), ROne), RInt(100))]

\* the drawdown series of the curve initial_capital * cum
DrawdownCurve(cum) ==
    CHOOSE r \in
        {TupleOf(DrawdownOf(eq, TupleOf(ExpandingMax(eq)))) :
            eq \in {TupleOf(EquityOf(cum))}} : TRUE

\* the smallest of s[1..t]
RECURSIVE MinTo(_, _)
MinTo(s, t) ==
    IF t = 1 THEN s[1]
    ELSE CHOOSE r \in
            {IF RLt(s[t], m) THEN s[t] ELSE m : m \in {MinTo(s, t - 1)}} : TRUE

\* Series.min(); NaN for an empty series
SeriesMin(s) == IF DOMAIN s = {} THEN NaN ELSE MinTo(s, Cardinality(DOMAIN s))

(***************************************************************************)
(* Reductions of a series.  As in pandas, NaN values are skipped; the      *)
(* sample variance divides by (count - 1) and is NaN below two values.     *)
(***************************************************************************)
\* Series.count(): the number of values that are not NaN
CountOf(s) == Cardinality({t \in DOMAIN s : ~IsNaN(s[t])})

\* the product of a set of naturals
RECURSIVE BigProduct(_)
BigProduct(S) ==
    IF S = {} THEN BigOf(1)
    ELSE CHOOSE r \in
            {BigMul(d, BigProduct(S \ {d})) : d \in {CHOOSE x \in S : TRUE}} : TRUE

\* the denominators of the non-NaN values of s
DensOf(s) == {s[t].den : t \in {u \in DOMAIN s : ~IsNaN(s[u])}}

\* the value x over the product of the denominators dens, x.den among them
OverDens(x, dens) ==
    IF IsNaN(x) THEN NaN
    ELSE [neg |-> x.neg,
          num |-> BigMul(x.num, BigProduct(dens \ {x.den})),
          den |-> BigProduct(dens)]

\* the same values over one common denominator, so that sums keep it
OverCommonDen(s) ==
    CHOOSE r \in
        UNION {{TupleOf([t \in DOMAIN c |-> OverDens(c[t], dens)]) :
                    dens \in {DensOf(c)}} : c \in {TupleOf(s)}} : TRUE

\* the sum of the non-NaN values of s[1..t]
RECURSIVE SumTo(_, _)
SumTo(s, t) ==
    IF t = 0 THEN RZero
    ELSE CHOOSE r \in
            {RAdd(a, FillNa0(s[t])) : a \in {SumTo(s, t - 1)}} : TRUE

\* Series.sum()
SumOf(s) ==
    CHOOSE r \in {SumTo(c, Len(c)) : c \in {OverCommonDen(s)}} : TRUE

\* Series.mean()
MeanOf(s) ==
    CHOOSE r \in
        {IF CountOf(c) = 0 THEN NaN ELSE RDiv(SumOf(c), RInt(CountOf(c))) :
            c \in {TupleOf(s)}} : TRUE

\* count * x - sum for every non-NaN x of s: count times the deviation of x
\* from the mean
ScaledDeviations(s) ==
    CHOOSE r \in
        UNION {{TupleOf([t \in DOMAIN c |->
                            IF IsNaN(c[t]) THEN NaN
                            ELSE RSub(RMul(RInt(CountOf(c)), c[t]), sum)]) :
                    sum \in {SumTo(c, Len(c))}} :
               c \in {OverCommonDen(s)}} : TRUE

\* sum((a - mean(a)) * (b - mean(b))) / (count - 1) for two series with NaN
\* at the same places
CoMoment(a, b) ==
    IF CountOf(a) < 2 THEN NaN
    ELSE CHOOSE r \in
            {RDiv(SumOf([t \in DOMAIN a |-> RMul(d[1][t], d[2][t])]),
                  RInt(CountOf(a) * CountOf(a) * (CountOf(a) - 1))) :
                d \in {<<ScaledDeviations(a), ScaledDeviations(b)>>}} : TRUE

\* Series.var(), ddof = 1
VarOf(s) == CoMoment(s, s)

\* np.cov(a, b)[0][1] of two series without NaN, ddof = 1
CovOf(a, b) == CoMoment(a, b)

(***************************************************************************)
(* Statistics that hold a square root are carried exactly, as the sign of  *)
(* the number and its square: [neg, sq] stands for (-1)^neg * sqrt(sq).    *)
(* sq = NaN is NaN.                                                        *)
(***************************************************************************)
SurdMake(neg, sq) == [neg |-> (neg /\ ~IsNaN(sq) /\ sq.num # <<>>), sq |-> sq]

\* np.sqrt(q)
SqrtOf(q) == SurdMake(FALSE, q)

\* the rational r as a surd
SurdOf(r) == SurdMake(r.neg, RMul(r, r))

SurdZero == SurdOf(RZero)

SurdMul(x, y) == SurdMake(x.neg # y.neg, RMul(x.sq, y.sq))

SurdDiv(x, y) == SurdMake(x.neg # y.neg, RDiv(x.sq, y.sq))

SurdIsNaN(x) == IsNaN(x.sq)

SurdIsZero(x) == RIsZero(x.sq)

\* "x != 0" on floats: true of NaN
SurdNonzero(x) == ~SurdIsZero(x)

\* "x != 0" on floats: true of NaN
RNonzero(x) == ~RIsZero(x)

SurdEq(x, y) == x.neg = y.neg /\ REq(x.sq, y.sq)

\* Series.std()
StdOf(s) == SqrtOf(VarOf(s))

\* std * np.sqrt(252) * 100 if std != 0 else 0
VolatilityOf(std) ==
    IF SurdNonzero(std)
    THEN SurdMul(SurdMul(std, SqrtOf(RInt(TradingDays))), SurdOf(RInt(100)))
    ELSE SurdZero

\* (mean / std * np.sqrt(252)) if std != 0 else 0
SharpeOf(mean, std) ==
    IF SurdNonzero(std)
    THEN SurdMul(SurdDiv(SurdOf(mean), std), SqrtOf(RInt(TradingDays)))
    ELSE SurdZero

(***************************************************************************)
(* A compound annual rate (ratio ** (1 / years) - 1) * 100 is carried as   *)
(* the pair of its ratio and years; it is NaN when the ratio is.  The      *)
(* closes of the explored inputs keep every ratio positive.                *)
(***************************************************************************)
AnnualRate(ratio, years) == [ratio |-> ratio, years |-> years]

\* the rate 0: (1 ** 1 - 1) * 100
AnnualRateZero == AnnualRate(ROne, ROne)

AnnualRateIsNaN(x) == IsNaN(x.ratio) \/ IsNaN(x.years)

\* ((ratio) ** (1 / years) - 1) * 100 if years > 0 else 0
AnnualRateOf(ratio, days) ==
    IF days > 0
    THEN AnnualRate(ratio, RDiv(RInt(days), RInt(TradingDays)))
    ELSE AnnualRateZero

\* (value / initial_capital - 1) * 100
TotalReturnOf(value) ==
    RMul(RSub(RDiv(value, RInt(initial_capital)), ROne), RInt(100))

(***************************************************************************)
(* The scalar statistics (lines 57-101).                                   *)
(***************************************************************************)
\* len(df[df['Strategy_Returns'] > 0]); NaN > 0 is false
WinningTrades(s) == Cardinality({t \in DOMAIN s : RLt(RZero, s[t])})

\* len(df[df['Strategy_Returns'] != 0]); NaN != 0 is true
TotalActiveTrades(s) == Cardinality({t \in DOMAIN s : RNonzero(s[t])})

\* (winning_trades / total_active_trades * 100) if total_active_trades > 0 else 0
WinRateOf(s) ==
    IF TotalActiveTrades(s) > 0
    THEN RMul(RDiv(RInt(WinningTrades(s)), RInt(TotalActiveTrades(s))), RInt(100))
    ELSE RZero

\* df[df['Position_Change'] > 0]['Strategy_Returns'].mean() * 100, or 0
AvgTradeReturnOf(chg, s) ==
    IF {t \in DOMAIN chg : RLt(RZero, chg[t])} # {}
    THEN RMul(MeanOf([t \in DOMAIN s |->
                        IF RLt(RZero, chg[t]) THEN s[t] ELSE NaN]),
              RInt(100))
    ELSE RZero

\* covariance / market_variance if market_variance != 0 else 1.0
BetaOf(covariance, market_variance) ==
    IF RNonzero(market_variance) THEN RDiv(covariance, market_variance) ELSE ROne

\* annual_return - (0 + beta * (market_annual_return - 0)), carried as its terms
AlphaOf(ar, b, mar) ==
    [annual_return |-> ar, beta |-> b, market_annual_return |-> mar]

AlphaIsNaN(a) ==
    AnnualRateIsNaN(a.annual_return) \/ IsNaN(a.beta)
        \/ AnnualRateIsNaN(a.market_annual_return)

\* df['Strategy_Returns'].fillna(0) - market_returns
ActiveReturns(s, mr) == [t \in DOMAIN s |-> RSub(FillNa0(s[t]), mr[t])]

\* active_returns.std() * np.sqrt(252)
TrackingError(std) == SurdMul(std, SqrtOf(RInt(TradingDays)))

\* (active_returns.mean() * 252) / tracking_error if tracking_error != 0 else 0
InformationRatioOf(mean, tracking_error) ==
    IF SurdNonzero(tracking_error)
    THEN SurdDiv(SurdOf(RMul(mean, RInt(TradingDays))), tracking_error)
    ELSE SurdZero

\* (df['MACD'] - df['Signal']).abs() / df['Close']
SignalStrength(m, sg, c) ==
    [t \in DOMAIN m |-> RDiv(RAbs(RInt(m[t] - sg[t])), RInt(c[t]))]

\* faulty variant of ConfidenceRatioOf: the mean over every period
ConfidenceRatioAllPeriods(target, strength) ==
    LET x == RMul(MeanOf(strength), RInt(ConfidenceScale))
    IN  IF IsNaN(x) THEN RInt(DefaultConfidence) ELSE x

\* df[df['Target'] == 1]['Signal_Strength'].mean() * 1000, 50.0 when NaN
ConfidenceRatioOf(target, strength) ==
    LET x == RMul(MeanOf([t \in DOMAIN target |->
                            IF target[t] = 1 THEN strength[t] ELSE NaN]),
                  RInt(ConfidenceScale))
    IN  IF IsNaN(x) THEN RInt(DefaultConfidence) ELSE x

(***************************************************************************)
(* The trade ledger (lines 107-162).                                       *)
(***************************************************************************)
\* faulty variant of CurrentSignal: the lagged position instead of the target
CurrentSignalLagged(target, i) == IF i = 0 THEN 0 ELSE target[i]

\* df['Target'].iloc[idx]
CurrentSignal(target, i) == target[i + 1]

\* faulty variant of DurationOf: both end periods counted
DurationInclusive(exit, entry) == exit - entry + 1

\* duration = idx - entry_idx
DurationOf(exit, entry) == exit - entry

\* faulty variant of EntryCond: an entry at every long period, open or not
EntryCondAlways(sig, open) == sig = 1

\* "if current_signal == 1 and not position_open"
EntryCond(sig, open) == sig = 1 /\ ~open

\* faulty variant of ExitCond: an exit at every flat period, open or not
ExitCondAlways(sig, open) == sig = 0

\* "elif current_signal == 0 and position_open"
ExitCond(sig, open) == sig = 0 /\ open

\* faulty variant of ForcedSellSignal: the length instead of the last index
ForcedSellSignalLength(n) == n

\* sell_signals.append(len(df) - 1)
ForcedSellSignal(n) == n - 1

\* faulty variant of ForcedCloseCond: no forced close at the series end
ForcedCloseNever(open) == FALSE

\* "if position_open" after the loop
ForcedCloseCond(open) == open

\* faulty variant of ProfitLoss: the commission of one leg only
ProfitLossOneLeg(entry, exit) ==
    RSub(RSub(RInt(exit), RInt(entry)), RMul(RInt(entry), commission))

\* (exit_price - entry_price) - (entry_price * commission * 2)
ProfitLoss(entry, exit) ==
    RSub(RSub(RInt(exit), RInt(entry)),
         RMul(RMul(RInt(entry), commission), RInt(2)))

\* (profit_loss / entry_price) * 100
ProfitLossPct(pl, entry) == RMul(RDiv(pl, RInt(entry)), RInt(100))

\* TradeRecord(...); entry and exit are 0-based period indices
TradeRecord(ds, entry, price, exit, exitPrice) ==
    [entry_date      |-> ds[entry + 1],
     exit_date       |-> ds[exit + 1],
     entry_price     |-> price,
     exit_price      |-> exitPrice,
     profit_loss     |-> ProfitLoss(price, exitPrice),
     profit_loss_pct |-> ProfitLossPct(ProfitLoss(price, exitPrice), price),
     duration_days   |-> DurationOf(exit, entry),
     trade_type      |-> "LONG"]

(***************************************************************************)
(* State.                                                                  *)
(***************************************************************************)
VARIABLES
    pc,                 \* the next block of run_backtest to execute
    error,              \* the exception run_backtest raised, or NoError
    closes, macd, macd_signal, dates,       \* data: StockData
    Target, Position, Returns, Strategy_Returns,
    Position_Change, Commission_Cost,       \* columns of df
    cumulative_returns, equity_curve, final_equity,
    market_returns, market_cumulative, market_equity,
    total_return, cagr, annual_return, volatility, win_rate,
    drawdown_curve, max_drawdown, sharpe_ratio, avg_trade_return,
    market_total_return, market_annual_return, market_volatility,
    market_sharpe_ratio, market_drawdown, market_max_drawdown,
    beta, alpha, information_ratio, confidence_ratio,
    returns_list,
    trades, buy_signals, sell_signals,
    position_open, entry_idx, entry_price, idx,
    report,             \* the BacktestMetrics returned
    caller,             \* the invocation of run_backtest that is running
    suspended,          \* the locals of the invocation that is not running
    given,              \* the StockData each caller handed over
    overlapped,         \* an invocation was interrupted in mid-run
    fetch_pc,           \* the next block of DataEngine._fetch_uncached
    fetch_symbol,       \* its symbol argument
    ticker_history,     \* what ticker.history(...) is going to answer
    df,                 \* its DataFrame, column by column
    current_price, prev_close,
    fetched,            \* the StockData it returned
    fetch_error,        \* the exception it raised, or NoError
    session_state,      \* st.session_state of the AI Signals page
    page_pc,            \* the next block of run_analysis_pipeline
    pipeline,           \* its arguments and locals
    entry_state,        \* st.session_state when the pipeline was called
    runs,               \* the calls of run_analysis_pipeline so far
    last_op,            \* the last operation on search_history
    predict_pc,         \* the next block of MLEngine.predict
    predict_data,       \* its argument data: StockData
    latest,             \* the latest values it extracts (lines 21-27)
    score,
    action, confidence, confidence_level, signal_value,
    prediction,         \* the MLSignal it returned
    predict_error       \* the exception it raised, or NoError

inputVars == <<closes, macd, macd_signal, dates>>
dfVars == <<Target, Position, Returns, Strategy_Returns,
            Position_Change, Commission_Cost>>
curveVars == <<cumulative_returns, equity_curve, final_equity,
               market_returns, market_cumulative, market_equity>>
metricVars == <<total_return, cagr, annual_return, volatility, win_rate,
                drawdown_curve, max_drawdown, sharpe_ratio, avg_trade_return>>
marketMetricVars == <<market_total_return, market_annual_return,
                      market_volatility, market_sharpe_ratio,
                      market_drawdown, market_max_drawdown,
                      beta, alpha, information_ratio, confidence_ratio>>
ledgerVars == <<trades, buy_signals, sell_signals,
                position_open, entry_idx, entry_price, idx>>
frameVars == <<pc, error, inputVars, dfVars, curveVars, metricVars,
              marketMetricVars, returns_list, ledgerVars, report>>
threadVars == <<caller, suspended, given, overlapped>>
\* the state outside the locals of the running invocation
fetchVars == <<fetch_pc, fetch_symbol, ticker_history, df,
               current_price, prev_close, fetched, fetch_error>>
pageVars == <<session_state, page_pc, pipeline, entry_state, runs, last_op>>
predictVars == <<predict_pc, predict_data, latest, score, action, confidence,
                 confidence_level, signal_value, prediction, predict_error>>
outerVars == <<threadVars, fetchVars, pageVars, predictVars>>
vars == <<frameVars, outerVars>>

NoReport == <<>>

NoError == "none"

\* faulty variant of FrameLengthsAgree: the index is not compared
FrameLengthsAgreeColumnsOnly(c, m, sg, d) == Len(c) = Len(m) /\ Len(m) = Len(sg)

\* pd.DataFrame({...}, index=...) accepts columns and an index of one length
\* and raises ValueError otherwise
FrameLengthsAgree(c, m, sg, d) ==
    Len(c) = Len(m) /\ Len(m) = Len(sg) /\ Len(sg) = Len(d)

\* equity_curve[-1] raises IndexError on an empty list
LastRaises(s) == DOMAIN s = {}

\* a series of n values v
ConstantSeries(n, v) == [t \in 1..n |-> v]

\* The scenario of the specification's section 8.7
ScenarioCloses == <<100, 100, 110, 110, 90>>
ScenarioMacd == <<1, 1, 2, -1, -1>>
ScenarioSignal == <<0, 0, 1, 0, 0>>

IsScenario ==
    /\ closes = ScenarioCloses
    /\ macd = ScenarioMacd
    /\ macd_signal = ScenarioSignal

\* An input whose ledger holds a position over a long period, exits on a
\* signal, re-enters and is closed by force one period later
IsLedgerScenario ==
    /\ closes = <<100, 110, 110, 100, 110>>
    /\ macd = <<1, 1, 0, 1, 1>>
    /\ macd_signal = <<0, 0, 0, 0, 0>>

\* len(df)
N == Len(closes)

\* data.dates, as day numbers
DatesOf(n) == [t \in 1..n |-> t - 1]

\* the locals of run_backtest before their assignment
LocalsUnset ==
    /\ Target = <<>> /\ Position = <<>> /\ Returns = <<>>
    /\ Strategy_Returns = <<>> /\ Position_Change = <<>>
    /\ Commission_Cost = <<>>
    /\ cumulative_returns = <<>> /\ equity_curve = <<>>
    /\ final_equity = NaN
    /\ market_returns = <<>> /\ market_cumulative = <<>>
    /\ market_equity = <<>>
    /\ total_return = NaN /\ cagr = AnnualRateZero
    /\ annual_return = AnnualRateZero
    /\ volatility = SurdZero /\ win_rate = NaN
    /\ drawdown_curve = <<>> /\ max_drawdown = NaN
    /\ sharpe_ratio = SurdZero /\ avg_trade_return = NaN
    /\ market_total_return = NaN /\ market_annual_return = AnnualRateZero
    /\ market_volatility = SurdZero /\ market_sharpe_ratio = SurdZero
    /\ market_drawdown = <<>> /\ market_max_drawdown = NaN
    /\ beta = NaN
    /\ alpha = AlphaOf(AnnualRateZero, NaN, AnnualRateZero)
    /\ information_ratio = SurdZero /\ confidence_ratio = NaN
    /\ returns_list = <<>>
    /\ trades = <<>> /\ buy_signals = <<>> /\ sell_signals = <<>>
    /\ position_open = FALSE /\ entry_idx = 0 /\ entry_price = 0 /\ idx = 0
    /\ report = NoReport

\* one caller: nothing is suspended
NoFrame == [pc |-> "done"]

SingleCaller ==
    /\ caller = 1
    /\ suspended = NoFrame
    /\ given = <<>>
    /\ overlapped = FALSE

NoFetch == <<>>

\* no data fetch is under way
FetchIdle ==
    /\ fetch_pc = "idle"
    /\ fetch_symbol = <<>>
    /\ ticker_history = [raises |-> TRUE, frame |-> NoFetch]
    /\ df = NoFetch
    /\ current_price = NaN /\ prev_close = NaN
    /\ fetched = NoFetch
    /\ fetch_error = NoError

None == <<>>

\* SessionManager.initialize() on a new session (AI Signals page, lines
\* 276-288)
InitialSession ==
    [stock_data |-> None,
     ml_signal |-> None,
     search_history |-> <<>>,
     current_symbol |-> <<>>]

NoPipeline ==
    [symbol |-> <<>>, clean_symbol |-> <<>>, stock_data |-> None,
     ml_signal |-> None, fetch_raised |-> FALSE, predict_raised |-> FALSE]

NoOp == [op |-> "none", symbol |-> <<>>, before |-> <<>>]

\* the page after initialize(), no pipeline under way
PageIdle ==
    /\ session_state = InitialSession
    /\ page_pc = "idle"
    /\ pipeline = NoPipeline
    /\ entry_state = InitialSession
    /\ runs = 0
    /\ last_op = NoOp

\* the locals of MLEngine.predict before their assignment
PredictLocalsUnset ==
    /\ latest = <<>>
    /\ score = RZero
    /\ action = "none"
    /\ confidence = NaN
    /\ confidence_level = "none"
    /\ signal_value = 0
    /\ prediction = None
    /\ predict_error = NoError

\* predict is not under way
PredictIdle ==
    /\ predict_pc = "idle"
    /\ predict_data = <<>>
    /\ PredictLocalsUnset

Init ==
    /\ FetchIdle
    /\ PageIdle
    /\ PredictIdle
    /\ pc = "frame"
    /\ error = NoError
    /\ \/ \E n \in 1..MaxLen :
            /\ closes \in [1..n -> CloseValues]
            /\ macd \in [1..n -> IndicatorValues]
            /\ macd_signal \in [1..n -> IndicatorValues]
            /\ dates = DatesOf(n)
       \/ IsScenario /\ dates = DatesOf(Len(ScenarioCloses))
       \/ IsLedgerScenario /\ dates = DatesOf(Len(ScenarioCloses))
       \* empty and misaligned inputs; their values play no part
       \/ \E nc, nm, ns, nd \in 0..MaxLen :
            /\ ~(nc > 0 /\ nc = nm /\ nm = ns /\ ns = nd)
            /\ closes = ConstantSeries(nc, 100)
            /\ macd = ConstantSeries(nm, 0)
            /\ macd_signal = ConstantSeries(ns, 0)
            /\ dates = DatesOf(nd)
    /\ LocalsUnset
    /\ SingleCaller

(***************************************************************************)
(* run_backtest, block by block.                                           *)
(***************************************************************************)
\* lines 25-29
BuildFrame ==
    /\ pc = "frame"
    /\ UNCHANGED outerVars
    /\ IF FrameLengthsAgree(closes, macd, macd_signal, dates)
       THEN pc' = "signals" /\ error' = error
       ELSE pc' = "raised" /\ error' = "ValueError"
    /\ UNCHANGED <<inputVars, dfVars, curveVars, metricVars, marketMetricVars,
                   returns_list, ledgerVars, report>>

\* lines 32-33
GenerateSignals ==
    /\ pc = "signals"
    /\ UNCHANGED outerVars
    /\ Target' = TargetOf(macd, macd_signal)
    /\ Position' = ShiftFill(TargetOf(macd, macd_signal))
    /\ pc' = "returns"
    /\ UNCHANGED <<error, inputVars, Returns, Strategy_Returns, Position_Change,
                   Commission_Cost, curveVars, metricVars, marketMetricVars,
                   returns_list, ledgerVars, report>>

\* lines 34-35
ComputeReturns ==
    /\ pc = "returns"
    /\ UNCHANGED outerVars
    /\ Returns' = PctChange(closes)
    /\ Strategy_Returns' = RawStrategyReturns(Position, PctChange(closes))
    /\ pc' = "commission"
    /\ UNCHANGED <<error, inputVars, Target, Position, Position_Change,
                   Commission_Cost, curveVars, metricVars, marketMetricVars,
                   returns_list, ledgerVars, report>>

\* lines 38-40
ApplyCommission ==
    /\ pc = "commission"
    /\ UNCHANGED outerVars
    /\ Position_Change' = DiffAbs(Position)
    /\ Commission_Cost' = CommissionCost(DiffAbs(Position))
    /\ Strategy_Returns' =
           NetStrategyReturns(Strategy_Returns, CommissionCost(DiffAbs(Position)))
    /\ pc' = "equity"
    /\ UNCHANGED <<error, inputVars, Target, Position, Returns, curveVars,
                   metricVars, marketMetricVars, returns_list, ledgerVars,
                   report>>

\* lines 43-45
EquityCurve ==
    /\ pc = "equity"
    /\ UNCHANGED outerVars
    /\ cumulative_returns' = CumulativeReturns(Strategy_Returns)
    /\ equity_curve' = EquityOf(CumulativeReturns(Strategy_Returns))
    /\ IF LastRaises(EquityOf(CumulativeReturns(Strategy_Returns)))
       THEN /\ final_equity' = final_equity
            /\ pc' = "raised" /\ error' = "IndexError"
       ELSE /\ final_equity' = EquityOf(CumulativeReturns(Strategy_Returns))[N]
            /\ pc' = "market" /\ error' = error
    /\ UNCHANGED <<inputVars, dfVars, market_returns, market_cumulative,
                   market_equity, metricVars, marketMetricVars,
                   returns_list, ledgerVars, report>>

\* lines 48-50
MarketEquity ==
    /\ pc = "market"
    /\ UNCHANGED outerVars
    /\ market_returns' = FillNa(Returns)
    /\ market_cumulative' = CumulativeReturns(Returns)
    /\ market_equity' = EquityOf(CumulativeReturns(Returns))
    /\ pc' = "metrics"
    /\ UNCHANGED <<error, inputVars, dfVars, cumulative_returns, equity_curve,
                   final_equity, metricVars, marketMetricVars,
                   returns_list, ledgerVars, report>>

\* lines 53-74
StrategyMetrics ==
    /\ pc = "metrics"
    /\ UNCHANGED outerVars
    /\ total_return' = TotalReturnOf(final_equity)
    /\ cagr' = AnnualRateOf(RDiv(final_equity, RInt(initial_capital)), N)
    /\ annual_return' = AnnualRateOf(RDiv(final_equity, RInt(initial_capital)), N)
    /\ \E std \in {StdOf(Strategy_Returns)} :
        /\ volatility' = VolatilityOf(std)
        /\ sharpe_ratio' = SharpeOf(MeanOf(Strategy_Returns), std)
    /\ win_rate' = WinRateOf(Strategy_Returns)
    /\ avg_trade_return' = AvgTradeReturnOf(Position_Change, Strategy_Returns)
    /\ \E drawdown \in {DrawdownCurve(cumulative_returns)} :
        /\ drawdown_curve' = drawdown
        /\ max_drawdown' = SeriesMin(drawdown)
    /\ pc' = "market_metrics"
    /\ UNCHANGED <<error, inputVars, dfVars, curveVars, marketMetricVars,
                   returns_list, ledgerVars, report>>

\* lines 77-101
MarketMetrics ==
    /\ pc = "market_metrics"
    /\ UNCHANGED outerVars
    /\ market_total_return' = TotalReturnOf(market_equity[N])
    /\ market_annual_return' =
           AnnualRateOf(RDiv(market_equity[N], RInt(initial_capital)), N)
    /\ \E std \in {StdOf(market_returns)} :
        /\ market_volatility' = VolatilityOf(std)
        /\ market_sharpe_ratio' = SharpeOf(MeanOf(market_returns), std)
    /\ \E b \in {BetaOf(CovOf(FillNa(Strategy_Returns), market_returns),
                         VarOf(market_returns))} :
        /\ beta' = b
        /\ alpha' = AlphaOf(annual_return, b,
               AnnualRateOf(RDiv(market_equity[N], RInt(initial_capital)), N))
    /\ \E active_returns \in {ActiveReturns(Strategy_Returns, market_returns)} :
        information_ratio' =
            InformationRatioOf(MeanOf(active_returns),
                               TrackingError(StdOf(active_returns)))
    /\ confidence_ratio' =
           ConfidenceRatioOf(Target, SignalStrength(macd, macd_signal, closes))
    /\ \E drawdown \in {DrawdownCurve(market_cumulative)} :
        /\ market_drawdown' = drawdown
        /\ market_max_drawdown' = SeriesMin(drawdown)
    /\ pc' = "ledger"
    /\ UNCHANGED <<error, inputVars, dfVars, curveVars, metricVars,
                   returns_list, ledgerVars, report>>

\* lines 104-113
BeginLedger ==
    /\ pc = "ledger"
    /\ UNCHANGED outerVars
    /\ returns_list' = FillNa(Strategy_Returns)
    /\ trades' = <<>> /\ buy_signals' = <<>> /\ sell_signals' = <<>>
    /\ position_open' = FALSE /\ entry_idx' = 0 /\ entry_price' = 0
    /\ idx' = 0
    /\ pc' = "scan"
    /\ UNCHANGED <<error, inputVars, dfVars, curveVars, metricVars, marketMetricVars,
                   report>>

\* one iteration of "for idx in range(len(df))", lines 115-143
ScanStep ==
    /\ pc = "scan"
    /\ UNCHANGED outerVars
    /\ idx < N
    /\ LET current_signal == CurrentSignal(Target, idx)
       IN  IF EntryCond(current_signal, position_open)
           THEN /\ position_open' = TRUE
                /\ entry_idx' = idx
                /\ entry_price' = closes[idx + 1]
                /\ buy_signals' = Append(buy_signals, idx)
                /\ UNCHANGED <<trades, sell_signals>>
           ELSE IF ExitCond(current_signal, position_open)
           THEN /\ position_open' = FALSE
                /\ trades' = Append(trades,
                       TradeRecord(dates, entry_idx, entry_price,
                                   idx, closes[idx + 1]))
                /\ sell_signals' = Append(sell_signals, idx)
                /\ UNCHANGED <<entry_idx, entry_price, buy_signals>>
           ELSE UNCHANGED <<position_open, entry_idx, entry_price,
                            trades, buy_signals, sell_signals>>
    /\ idx' = idx + 1
    /\ pc' = "scan"
    /\ UNCHANGED <<error, inputVars, dfVars, curveVars, metricVars, marketMetricVars,
                   returns_list, report>>

\* lines 145-162
ForcedClose ==
    /\ pc = "scan"
    /\ UNCHANGED outerVars
    /\ idx = N
    /\ IF ForcedCloseCond(position_open)
       THEN /\ trades' = Append(trades,
                   TradeRecord(dates, entry_idx, entry_price,
                               N - 1, closes[N]))
            /\ sell_signals' = Append(sell_signals, ForcedSellSignal(N))
       ELSE UNCHANGED <<trades, sell_signals>>
    /\ pc' = "return"
    /\ UNCHANGED <<error, inputVars, dfVars, curveVars, metricVars, marketMetricVars,
                   returns_list, buy_signals,
                   position_open, entry_idx, entry_price, idx, report>>

\* BacktestMetrics(...), lines 171-212
BacktestMetrics ==
    [initial_capital |-> RInt(initial_capital),
     final_equity    |-> final_equity,
     total_trades    |-> Len(trades),
     win_rate        |-> win_rate,
     max_drawdown    |-> max_drawdown,
     total_return    |-> total_return,
     annual_return   |-> annual_return,
     cagr            |-> cagr,
     volatility      |-> volatility,
     sharpe_ratio    |-> sharpe_ratio,
     avg_trade_return |-> avg_trade_return,
     confidence_ratio |-> confidence_ratio,
     market_total_return  |-> market_total_return,
     market_annual_return |-> market_annual_return,
     market_volatility    |-> market_volatility,
     market_sharpe_ratio  |-> market_sharpe_ratio,
     market_max_drawdown  |-> market_max_drawdown,
     alpha           |-> alpha,
     beta            |-> beta,
     information_ratio |-> information_ratio,
     drawdown_curve  |-> drawdown_curve,
     equity_curve    |-> equity_curve,
     market_equity   |-> market_equity,
     returns         |-> returns_list,
     dates           |-> dates,
     trades          |-> trades,
     prices          |-> closes,
     buy_signals     |-> buy_signals,
     sell_signals    |-> sell_signals,
     data_points     |-> N]

Return ==
    /\ pc = "return"
    /\ UNCHANGED outerVars
    /\ report' = BacktestMetrics
    /\ pc' = "done"
    /\ UNCHANGED <<error, inputVars, dfVars, curveVars, metricVars, marketMetricVars,
                   returns_list, ledgerVars>>

Next ==
    \/ BuildFrame
    \/ GenerateSignals
    \/ ComputeReturns
    \/ ApplyCommission
    \/ EquityCurve
    \/ MarketEquity
    \/ StrategyMetrics
    \/ MarketMetrics
    \/ BeginLedger
    \/ ScanStep
    \/ ForcedClose
    \/ Return

Spec == Init /\ [][Next]_vars

Returned == pc = "done"

(***************************************************************************)
(* Vocabulary of the properties: the section 4.1 series written directly   *)
(* from the inputs, indexed by the 0-based period t.                       *)
(***************************************************************************)
Periods == 0..(N - 1)

At(s, t) == s[t + 1]

TargetAt(t) == IF At(macd, t) > At(macd_signal, t) THEN 1 ELSE 0

PositionAt(t) == IF t = 0 THEN 0 ELSE TargetAt(t - 1)

PeriodReturnAt(t) ==
    IF t = 0 THEN RZero
    ELSE RSub(RDiv(RInt(At(closes, t)), RInt(At(closes, t - 1))), ROne)

PositionChangeAt(t) ==
    IF t = 0 THEN 0
    ELSE IF PositionAt(t) = PositionAt(t - 1) THEN 0 ELSE 1

\* what the reported net return of period t falls short of Position * PeriodReturn
ChargeAt(t) ==
    RSub(RMul(RInt(PositionAt(t)), PeriodReturnAt(t)), At(report.returns, t))

ChargedPeriods == {t \in Periods : ~RIsZero(ChargeAt(t))}

NonzeroReturnPeriods == {t \in Periods : ~RIsZero(At(report.returns, t))}

\* product over i <= t of (1 + s[i])
RECURSIVE ProductTo(_, _)
ProductTo(s, t) ==
    IF t = 0 THEN RAdd(ROne, At(s, 0))
    ELSE RMul(RAdd(ROne, At(s, t)), ProductTo(s, t - 1))

SeqToSet(s) == {s[i] : i \in 1..Len(s)}

\* the whole translation of lines 32-45 on an arbitrary input
RunPosition(m, sg) == ShiftFill(TargetOf(m, sg))

RunReturns(c, m, sg) ==
    FillNa(NetStrategyReturns(
        RawStrategyReturns(RunPosition(m, sg), PctChange(c)),
        CommissionCost(DiffAbs(RunPosition(m, sg)))))

RunEquity(c, m, sg) == EquityOf(CumulativeReturns(RunReturns(c, m, sg)))

\* the values a perturbed MACD[t] or Signal[t] takes: every input value
PerturbValues == IndicatorValues

(***************************************************************************)
(* C1  No-lookahead: replacing MACD[t] and/or Signal[t] at one period t    *)
(* by any other values changes neither Position[t] nor the net return nor  *)
(* the equity of period t or of any earlier period (the equity values are  *)
(* compared as computed, numerator and denominator alike).                 *)
(***************************************************************************)
C1_NoLookahead ==
    Returned =>
        \A t \in Periods : \A m \in PerturbValues : \A sg \in PerturbValues :
            LET macd2 == [macd EXCEPT ![t + 1] = m]
                sig2  == [macd_signal EXCEPT ![t + 1] = sg]
                pos2  == RunPosition(macd2, sig2)
                ret2  == RunReturns(closes, macd2, sig2)
                eq2   == RunEquity(closes, macd2, sig2)
            IN  /\ At(pos2, t) = At(Position, t)
                /\ \A u \in 0..t :
                    /\ REq(At(ret2, u), At(report.returns, u))
                    /\ At(eq2, u) = At(report.equity_curve, u)

\* a perturbation at t that flips Target[t] and the position of period t+1
C1_Witness ==
    /\ Returned
    /\ \E t \in Periods : \E m \in PerturbValues :
        /\ t + 1 < N
        /\ At(TargetOf([macd EXCEPT ![t + 1] = m], macd_signal), t) # At(Target, t)
        /\ At(RunPosition([macd EXCEPT ![t + 1] = m], macd_signal), t + 1)
               # At(Position, t + 1)
        /\ ~REq(At(RunReturns(closes, [macd EXCEPT ![t + 1] = m], macd_signal), t + 1),
                At(report.returns, t + 1))

(***************************************************************************)
(* C2  Target[t] = 1 exactly when MACD[t] > Signal[t] (a tie gives 0),     *)
(* Position[0] = 0 and Position[t] = Target[t-1] for t > 0; Position is    *)
(* always in {0, 1}.                                                       *)
(***************************************************************************)
C2_TargetPosition ==
    pc \notin {"frame", "signals", "raised"} =>
        /\ Len(Target) = N
        /\ Len(Position) = N
        /\ \A t \in Periods :
            /\ At(Target, t) \in {0, 1}
            /\ At(Target, t) = 1 <=> At(macd, t) > At(macd_signal, t)
            /\ At(macd, t) = At(macd_signal, t) => At(Target, t) = 0
            /\ At(Position, t) \in {0, 1}
            /\ t = 0 => At(Position, t) = 0
            /\ t > 0 => At(Position, t) = At(Target, t - 1)

\* a tie, a long period and a lagged long position in one run
C2_Witness ==
    /\ Returned
    /\ \E t \in Periods : At(macd, t) = At(macd_signal, t) /\ At(Target, t) = 0
    /\ \E t \in Periods : t > 0 /\ At(Target, t - 1) = 1 /\ At(Position, t) = 1

(***************************************************************************)
(* C3  returns[0] = 0 and, for t > 0, returns[t] =                         *)
(* Position[t]*(Close[t]/Close[t-1] - 1) - |Position[t]-Position[t-1]| *   *)
(* commission: the commission is subtracted exactly where Position differs *)
(* from the previous period's, and never at the first period.              *)
(***************************************************************************)
C3_NetReturn ==
    Returned =>
        /\ Len(report.returns) = N
        /\ \A t \in Periods :
            REq(At(report.returns, t),
                RSub(RMul(RInt(PositionAt(t)), PeriodReturnAt(t)),
                     RMul(RInt(PositionChangeAt(t)), commission)))
        /\ RIsZero(At(report.returns, 0))
        /\ ChargedPeriods = {t \in Periods : PositionChangeAt(t) = 1}

\* an entry and an exit charged in a run whose price moves while long
C3_Witness ==
    /\ Returned
    /\ \E t \in Periods :
        /\ PositionAt(t) = 1 /\ PositionChangeAt(t) = 1
        /\ ~RIsZero(PeriodReturnAt(t))
    /\ \E t \in Periods : PositionAt(t) = 0 /\ PositionChangeAt(t) = 1

(***************************************************************************)
(* C4  Equity consistency: equity_curve[t] = initial_capital * product     *)
(* over i <= t of (1 + returns[i]); equity_curve[0] = initial_capital and  *)
(* final_equity = equity_curve[last].                                      *)
(***************************************************************************)
C4_EquityConsistency ==
    Returned =>
        /\ Len(report.equity_curve) = N
        /\ \A t \in Periods :
            REq(At(report.equity_curve, t),
                RMul(RInt(initial_capital), ProductTo(report.returns, t)))
        /\ REq(At(report.equity_curve, 0), RInt(initial_capital))
        /\ REq(report.final_equity, At(report.equity_curve, N - 1))

\* at least two periods with a nonzero net return compound into the curve
C4_Witness ==
    /\ Returned
    /\ Cardinality(NonzeroReturnPeriods) >= 2
    /\ ~REq(report.final_equity, RInt(initial_capital))

(***************************************************************************)
(* C5  Ledger completeness: total_trades equals the number of flat-to-long *)
(* transitions of Target, the periods t with Target[t] = 1 and (t = 0 or   *)
(* Target[t-1] = 0).                                                       *)
(***************************************************************************)
FlatToLong == {t \in Periods : TargetAt(t) = 1 /\ (t = 0 \/ TargetAt(t - 1) = 0)}

C5_LedgerCompleteness ==
    Returned =>
        /\ report.total_trades = Cardinality(FlatToLong)
        /\ Len(report.trades) = report.total_trades

\* a signal-closed trade followed by a trade still open at the end
C5_Witness ==
    /\ Returned
    /\ report.total_trades >= 2
    /\ TargetAt(N - 1) = 1
    /\ \E t \in Periods : t > 0 /\ TargetAt(t) = 0 /\ TargetAt(t - 1) = 1

(***************************************************************************)
(* C6  Commission symmetry: every trade of the ledger, signal-closed or    *)
(* force-closed, of any duration, has profit_loss = (exit_price -          *)
(* entry_price) - entry_price*commission*2 and profit_loss_pct =           *)
(* profit_loss/entry_price*100.                                            *)
(***************************************************************************)
RoundTripCommission(price) ==
    RDiv(RInt(2 * CommissionNum * price), RInt(CommissionDen))

C6_CommissionSymmetry ==
    \A i \in 1..Len(trades) :
        LET tr == trades[i]
        IN  /\ REq(tr.profit_loss,
                   RSub(RInt(tr.exit_price - tr.entry_price),
                        RoundTripCommission(tr.entry_price)))
            /\ REq(tr.profit_loss_pct,
                   RDiv(RMul(tr.profit_loss, RInt(100)), RInt(tr.entry_price)))

\* a signal-closed trade and a forced close of another duration in one ledger
C6_Witness ==
    /\ Returned
    /\ Len(trades) >= 2
    /\ TargetAt(N - 1) = 1
    /\ \E i \in 1..(Len(trades) - 1) :
        /\ At(sell_signals, i - 1) < N - 1
        /\ trades[i].duration_days # trades[Len(trades)].duration_days
        /\ trades[i].exit_price # trades[i].entry_price

(***************************************************************************)
(* C7 as stated: every trade of the ledger has exactly two commission      *)
(* charges in the net return series, one for its entry and one for its     *)
(* exit, and no commission is charged at any other period; hence the       *)
(* series holds twice as many charges as the ledger holds trades.          *)
(***************************************************************************)
C7_TwoChargesPerTrade ==
    Returned => Cardinality(ChargedPeriods) = 2 * Len(report.trades)

(***************************************************************************)
(* C7 amended: a commission is charged at exactly the periods t >= 1 with  *)
(* Position[t] # Position[t-1], which are the period after each entry      *)
(* index and the period after each signal-exit index, when that period     *)
(* exists; each charge is the commission rate.  A trade therefore has two  *)
(* charges only when it is signal-closed before the final period; a forced *)
(* close and an exit at the final period are never charged.                *)
(***************************************************************************)
ChargesOfEntries == {b + 1 : b \in {x \in SeqToSet(report.buy_signals) : x + 1 < N}}

ChargesOfExits == {e + 1 : e \in {x \in SeqToSet(report.sell_signals) : x + 1 < N}}

C7_ChargePerPositionChange ==
    Returned =>
        /\ ChargedPeriods = ChargesOfEntries \cup ChargesOfExits
        /\ ChargesOfEntries \cap ChargesOfExits = {}
        /\ ChargedPeriods = {t \in Periods : PositionChangeAt(t) = 1}
        /\ \A t \in ChargedPeriods : REq(ChargeAt(t), commission)
        /\ Cardinality(ChargedPeriods) <= 2 * Len(report.trades)
        /\ (Len(report.trades) > 0 /\ At(report.sell_signals, Len(report.trades) - 1) = N - 1)
               => Cardinality(ChargedPeriods) < 2 * Len(report.trades)

\* one trade charged twice and a later trade, force-closed, charged less
C7_Witness ==
    /\ Returned
    /\ Len(report.trades) >= 2
    /\ At(report.sell_signals, 0) + 1 \in ChargedPeriods
    /\ At(report.buy_signals, 0) + 1 \in ChargedPeriods
    /\ Cardinality(ChargedPeriods) < 2 * Len(report.trades)

(***************************************************************************)
(* C8 as stated: in the scenario Position = [0,1,1,1,0], the nonzero net   *)
(* returns are at indices 2 and 3, and the commission is charged at        *)
(* indices 0 and 3.                                                        *)
(***************************************************************************)
C8_ScenarioAsStated ==
    (Returned /\ IsScenario) =>
        /\ Position = <<0, 1, 1, 1, 0>>
        /\ NonzeroReturnPeriods = {2, 3}
        /\ ChargedPeriods = {0, 3}

(***************************************************************************)
(* C8 amended: in the scenario Position = [0,1,1,1,0]; the commission is   *)
(* charged at indices 1 and 4 (where Position changes); the net returns    *)
(* are [0, -0.002, 0.1, 0, -0.002], nonzero at indices 1, 2 and 4; the     *)
(* final equity is 1,000,000 * 0.998 * 1.1 * 0.998 = 1,095,604.4.          *)
(***************************************************************************)
C8_ScenarioReturns ==
    (Returned /\ IsScenario) =>
        /\ Position = <<0, 1, 1, 1, 0>>
        /\ NonzeroReturnPeriods = {1, 2, 4}
        /\ ChargedPeriods = {1, 4}
        /\ REq(At(report.returns, 0), RZero)
        /\ REq(At(report.returns, 1), RDiv(RInt(-2), RInt(1000)))
        /\ REq(At(report.returns, 2), RDiv(RInt(1), RInt(10)))
        /\ REq(At(report.returns, 3), RZero)
        /\ REq(At(report.returns, 4), RDiv(RInt(-2), RInt(1000)))
        /\ REq(report.final_equity, RDiv(RInt(10956044), RInt(10)))

C8_Witness == Returned /\ IsScenario /\ Len(report.returns) = 5

(***************************************************************************)
(* C9  Scenario ledger: exactly one trade, opened at index 0 at price 100  *)
(* and closed at index 3 at price 110, with profit_loss = 9.6 and duration *)
(* 3; buy_signals = [0] and sell_signals = [3].                            *)
(***************************************************************************)
C9_ScenarioLedger ==
    (Returned /\ IsScenario) =>
        /\ report.total_trades = 1
        /\ Len(report.trades) = 1
        /\ report.trades[1].entry_date = At(dates, 0)
        /\ report.trades[1].entry_price = 100
        /\ report.trades[1].exit_date = At(dates, 3)
        /\ report.trades[1].exit_price = 110
        /\ REq(report.trades[1].profit_loss, RDiv(RInt(96), RInt(10)))
        /\ report.trades[1].duration_days = 3
        /\ report.buy_signals = <<0>>
        /\ report.sell_signals = <<3>>

C9_Witness == Returned /\ IsScenario /\ Len(report.trades) > 0

(***************************************************************************)
(* C10 as stated: when MACD > Signal at every period, the net return       *)
(* equals the period return at every period except for one entry           *)
(* commission charged at t = 0.                                            *)
(***************************************************************************)
AlwaysLong == \A t \in Periods : At(macd, t) > At(macd_signal, t)

C10_EntryChargedAtZero ==
    (Returned /\ AlwaysLong) =>
        /\ REq(At(report.returns, 0), RSub(PeriodReturnAt(0), commission))
        /\ \A t \in Periods \ {0} : REq(At(report.returns, t), PeriodReturnAt(t))

(***************************************************************************)
(* C10 amended: when MACD > Signal at every period, the net return equals  *)
(* the period return at every period except period 1 (when the series has  *)
(* one), where the single entry commission is subtracted; period 0 and     *)
(* every later period carry no commission.  Strategy equity equals         *)
(* benchmark equity at period 0 and, from period 1 on, benchmark equity    *)
(* times (1 + PeriodReturn[1] - commission) / (1 + PeriodReturn[1]).       *)
(***************************************************************************)
C10_BenchmarkEquivalence ==
    (Returned /\ AlwaysLong) =>
        /\ \A t \in Periods \ {1} : REq(At(report.returns, t), PeriodReturnAt(t))
        /\ N > 1 => REq(At(report.returns, 1), RSub(PeriodReturnAt(1), commission))
        /\ ChargedPeriods = Periods \cap {1}
        /\ REq(At(report.equity_curve, 0), At(report.market_equity, 0))
        /\ \A t \in Periods \ {0} :
            REq(RMul(At(report.equity_curve, t), RAdd(ROne, PeriodReturnAt(1))),
                RMul(At(report.market_equity, t),
                     RSub(RAdd(ROne, PeriodReturnAt(1)), commission)))
        /\ \A t \in Periods :
            REq(At(report.market_equity, t),
                RDiv(RInt(initial_capital * At(closes, t)), RInt(At(closes, 0))))

\* always long over three periods whose price moves after the entry charge
C10_Witness ==
    /\ Returned
    /\ AlwaysLong
    /\ N >= 3
    /\ ~RIsZero(PeriodReturnAt(1))
    /\ ~RIsZero(PeriodReturnAt(2))

(***************************************************************************)
(* C11  Drawdown bound: drawdown_curve[t] <= 0 at every period,            *)
(* drawdown_curve[t] = 0 whenever equity_curve[t] is the maximum of        *)
(* equity_curve[0..t], and max_drawdown is the minimum of drawdown_curve;  *)
(* the same for the benchmark's drawdown and market_max_drawdown.          *)
(***************************************************************************)
IsRunningMax(eq, t) == \A u \in 0..t : ~RLt(At(eq, t), At(eq, u))

IsMinimumOf(x, s) ==
    /\ \E t \in Periods : REq(x, At(s, t))
    /\ \A t \in Periods : ~RLt(At(s, t), x)

DrawdownBound(eq, dd, mdd) ==
    /\ Len(dd) = N
    /\ \A t \in Periods :
        /\ RLt(At(dd, t), RZero) \/ RIsZero(At(dd, t))
        /\ IsRunningMax(eq, t) => RIsZero(At(dd, t))
        /\ RIsZero(At(dd, t)) => IsRunningMax(eq, t)
    /\ IsMinimumOf(mdd, dd)

C11_DrawdownBound ==
    Returned =>
        /\ DrawdownBound(report.equity_curve, report.drawdown_curve,
                         report.max_drawdown)
        /\ DrawdownBound(report.market_equity, market_drawdown,
                         report.market_max_drawdown)

\* the strategy's equity makes a new high after the first period and then
\* falls below it, and so does the benchmark's
C11_Witness ==
    /\ Returned
    /\ \E t \in Periods :
        /\ t > 0 /\ t < N - 1
        /\ RLt(At(report.equity_curve, 0), At(report.equity_curve, t))
        /\ RLt(At(report.equity_curve, t + 1), At(report.equity_curve, t))
        /\ RLt(At(report.drawdown_curve, t + 1), RZero)
        /\ REq(report.max_drawdown, At(report.drawdown_curve, t + 1))
    /\ RLt(report.market_max_drawdown, RZero)

(***************************************************************************)
(* C12  Degenerate inputs: when all closes are equal, whatever the MACD    *)
(* and Signal series, the run returns a report with volatility = 0 and     *)
(* sharpe_ratio = 0.                                                       *)
(***************************************************************************)
ConstantPrice == \A t \in Periods : At(closes, t) = At(closes, 0)

C12_ConstantPriceZeroVolatility ==
    (Returned /\ ConstantPrice) =>
        /\ SurdIsZero(report.volatility)
        /\ SurdIsZero(report.sharpe_ratio)

(***************************************************************************)
(* C13  Never-crash policy: every run on a non-empty, length-aligned       *)
(* input returns a report in which every scalar statistic is a number,     *)
(* never NaN.                                                              *)
(***************************************************************************)
ScalarsDefined(r) ==
    /\ ~SurdIsNaN(r.volatility)
    /\ ~SurdIsNaN(r.sharpe_ratio)
    /\ ~IsNaN(r.win_rate)
    /\ ~IsNaN(r.avg_trade_return)
    /\ ~IsNaN(r.beta)
    /\ ~AlphaIsNaN(r.alpha)
    /\ ~SurdIsNaN(r.information_ratio)
    /\ ~AnnualRateIsNaN(r.cagr)
    /\ ~AnnualRateIsNaN(r.annual_return)
    /\ ~IsNaN(r.total_return)
    /\ ~IsNaN(r.max_drawdown)
    /\ ~IsNaN(r.market_total_return)
    /\ ~AnnualRateIsNaN(r.market_annual_return)
    /\ ~SurdIsNaN(r.market_volatility)
    /\ ~SurdIsNaN(r.market_sharpe_ratio)
    /\ ~IsNaN(r.market_max_drawdown)
    /\ ~IsNaN(r.confidence_ratio)

C13_NeverUndefined == Returned => ScalarsDefined(report)

(***************************************************************************)
(* C14  Invalid input: when the input series are empty, or closes, macd,   *)
(* macd_signal and dates differ in length, the run raises an error to the  *)
(* caller (the ValueError of the frame construction or the IndexError of   *)
(* the empty equity curve stands for InvalidInputError), returns no        *)
(* report, and computes no column from series cut to a common length.  An  *)
(* error is raised for no other input.                                     *)
(***************************************************************************)
Misaligned ==
    \/ Len(macd) # Len(closes)
    \/ Len(macd_signal) # Len(closes)
    \/ Len(dates) # Len(closes)

InvalidInput == Misaligned \/ Len(closes) = 0

Raised == pc = "raised"

C14_InvalidInput ==
    /\ InvalidInput =>
        /\ ~Returned
        /\ report = NoReport
        /\ Raised \/ ENABLED Next
    /\ Misaligned =>
        /\ pc \in {"frame", "raised"}
        /\ Target = <<>> /\ Position = <<>> /\ Returns = <<>>
        /\ equity_curve = <<>> /\ market_equity = <<>> /\ trades = <<>>
    /\ Raised <=> error # NoError
    /\ Raised => InvalidInput

\* the error raised for series of different positive lengths
C14_Witness ==
    /\ Raised
    /\ Len(macd) > 0
    /\ Len(macd) < Len(closes)
    /\ error = "ValueError"

(***************************************************************************)
(* C15  Win rate: win_rate = 100 * (number of periods with net return > 0) *)
(* / (number of periods with net return # 0), the first period's return    *)
(* counting as 0, and win_rate = 0 when no period has a nonzero net        *)
(* return.                                                                 *)
(***************************************************************************)
PositiveReturnPeriods == {t \in Periods : RLt(RZero, At(report.returns, t))}

C15_WinRate ==
    Returned =>
        REq(report.win_rate,
            IF NonzeroReturnPeriods = {} THEN RZero
            ELSE RDiv(RInt(100 * Cardinality(PositiveReturnPeriods)),
                      RInt(Cardinality(NonzeroReturnPeriods))))

(***************************************************************************)
(* C16  Leading-zero aggregation: volatility and sharpe_ratio are the      *)
(* statistics of the net return series of the report, all periods          *)
(* counted and period 0 contributing 0, as market_volatility and           *)
(* market_sharpe_ratio are those of the period returns; so a run whose net *)
(* returns equal the period returns at every period reports the            *)
(* benchmark's volatility and Sharpe ratio.                                *)
(***************************************************************************)
NetEqualsPeriodReturns ==
    \A t \in Periods : REq(At(report.returns, t), PeriodReturnAt(t))

C16_LeadingZeroAggregation ==
    Returned =>
        /\ SurdEq(report.volatility, VolatilityOf(StdOf(report.returns)))
        /\ SurdEq(report.sharpe_ratio,
                  SharpeOf(MeanOf(report.returns), StdOf(report.returns)))
        /\ NetEqualsPeriodReturns =>
               /\ SurdEq(report.volatility, report.market_volatility)
               /\ SurdEq(report.sharpe_ratio, report.market_sharpe_ratio)

(***************************************************************************)
(* The ledger read back from the report: the entry and exit periods of     *)
(* trade i are the periods of its dates.                                   *)
(***************************************************************************)
PeriodOfDate(d) == CHOOSE t \in Periods : At(dates, t) = d

EntryPeriod(i) == PeriodOfDate(report.trades[i].entry_date)

ExitPeriod(i) == PeriodOfDate(report.trades[i].exit_date)

TradeIndices == 1..Len(report.trades)

\* the first period from which trade i can be opened
ScanStart(i) == IF i = 1 THEN 0 ELSE ExitPeriod(i - 1) + 1

\* the flat periods after the entry of trade i
FlatAfterEntry(i) == {x \in Periods : x > EntryPeriod(i) /\ TargetAt(x) = 0}

MinOf(S) == CHOOSE x \in S : \A y \in S : x <= y

(***************************************************************************)
(* C17  Trade entry follows the undelayed Target: the entry period of a    *)
(* trade is the first period, from the start or from after the previous    *)
(* trade's exit, with Target = 1, and its entry price is the close of that *)
(* period; the lagged Position is still 0 there.                           *)
(***************************************************************************)
C17_EntryOnTarget ==
    Returned =>
        \A i \in TradeIndices :
            /\ EntryPeriod(i) >= ScanStart(i)
            /\ TargetAt(EntryPeriod(i)) = 1
            /\ \A u \in ScanStart(i)..(EntryPeriod(i) - 1) : TargetAt(u) = 0
            /\ report.trades[i].entry_price = At(closes, EntryPeriod(i))
            /\ At(report.buy_signals, i - 1) = EntryPeriod(i)
            /\ PositionAt(EntryPeriod(i)) = 0

\* an entry after the first period whose close differs from the close of
\* the next period, where Position becomes 1
C17_Witness ==
    /\ Returned
    /\ \E i \in TradeIndices :
        /\ EntryPeriod(i) > 0
        /\ EntryPeriod(i) + 1 < N
        /\ PositionAt(EntryPeriod(i) + 1) = 1
        /\ At(closes, EntryPeriod(i)) # At(closes, EntryPeriod(i) + 1)

(***************************************************************************)
(* C18  Signal-driven exit: a trade whose entry e is followed by a period  *)
(* with Target = 0 is closed at the first such period x; its exit price is *)
(* Close[x], its exit date the date of period x and its duration x - e.    *)
(***************************************************************************)
C18_SignalExit ==
    Returned =>
        \A i \in TradeIndices :
            FlatAfterEntry(i) # {} =>
                LET x == MinOf(FlatAfterEntry(i))
                IN  /\ At(report.sell_signals, i - 1) = x
                    /\ report.trades[i].exit_date = At(dates, x)
                    /\ report.trades[i].exit_price = At(closes, x)
                    /\ report.trades[i].duration_days = x - EntryPeriod(i)
                    /\ \A u \in EntryPeriod(i)..(x - 1) : TargetAt(u) = 1

\* a trade held over two periods and closed by a signal at another price
C18_Witness ==
    /\ Returned
    /\ \E i \in TradeIndices :
        /\ FlatAfterEntry(i) # {}
        /\ report.trades[i].duration_days >= 2
        /\ report.trades[i].exit_price # report.trades[i].entry_price

(***************************************************************************)
(* C19  Forced close: the scan ends with a position open if and only if    *)
(* Target is 1 at the final period; then exactly one trade is appended     *)
(* after the signal-closed ones, with the final close as exit price, the   *)
(* final date as exit date and duration (last index - entry index);        *)
(* otherwise the ledger holds the signal-closed trades only.               *)
(***************************************************************************)
LongToFlat == {x \in Periods : x > 0 /\ TargetAt(x) = 0 /\ TargetAt(x - 1) = 1}

C19_ForcedClose ==
    /\ (pc = "scan" /\ idx = N /\ N > 0) =>
        /\ position_open <=> TargetAt(N - 1) = 1
        /\ Len(trades) = Cardinality(LongToFlat)
    /\ Returned =>
        IF TargetAt(N - 1) = 1
        THEN /\ Len(report.trades) = Cardinality(LongToFlat) + 1
             /\ LET last == report.trades[Len(report.trades)]
                IN  /\ last.exit_price = At(closes, N - 1)
                    /\ last.exit_date = At(dates, N - 1)
                    /\ last.duration_days = (N - 1) - EntryPeriod(Len(report.trades))
                    /\ At(report.sell_signals, Len(report.trades) - 1) = N - 1
                    /\ FlatAfterEntry(Len(report.trades)) = {}
        ELSE /\ Len(report.trades) = Cardinality(LongToFlat)
             /\ \A i \in TradeIndices : FlatAfterEntry(i) # {}

\* a signal-closed trade, then a position held to the end and closed by
\* force after at least one period, at another price
C19_Witness ==
    /\ Returned
    /\ TargetAt(N - 1) = 1
    /\ Len(report.trades) >= 2
    /\ report.trades[Len(report.trades)].duration_days >= 1
    /\ report.trades[Len(report.trades)].exit_price
           # report.trades[Len(report.trades)].entry_price

(***************************************************************************)
(* C20  Single open position: during the scan the entries made exceed the  *)
(* trades closed by one when a position is open and by none otherwise; the *)
(* entries are exactly the flat-to-long periods scanned, so a period with  *)
(* Target = 1 while a position is open opens nothing; every trade is       *)
(* "LONG"; the trades are in chronological order, the exit period of each  *)
(* strictly before the entry period of the next.                           *)
(***************************************************************************)
C20_SingleOpenPosition ==
    /\ pc = "scan" =>
        /\ Len(buy_signals) - Len(trades) = (IF position_open THEN 1 ELSE 0)
        /\ SeqToSet(buy_signals) = {t \in FlatToLong : t < idx}
        /\ Len(buy_signals) = Cardinality({t \in FlatToLong : t < idx})
    /\ Returned =>
        /\ Len(report.buy_signals) = Len(report.trades)
        /\ SeqToSet(report.buy_signals) = FlatToLong
        /\ \A i \in TradeIndices :
            /\ report.trades[i].trade_type = "LONG"
            /\ EntryPeriod(i) <= ExitPeriod(i)
            /\ i < Len(report.trades) => ExitPeriod(i) < EntryPeriod(i + 1)
            /\ i < Len(report.trades) =>
                   At(report.sell_signals, i - 1) < At(report.buy_signals, i)

\* a period with Target = 1 while the position is open, and a later trade
C20_Witness ==
    /\ Returned
    /\ Len(report.trades) >= 2
    /\ \E t \in Periods :
        /\ t > 0 /\ TargetAt(t) = 1 /\ TargetAt(t - 1) = 1
        /\ t < EntryPeriod(2)

(***************************************************************************)
(* C21  Signal index lists: buy_signals, sell_signals and trades have      *)
(* total_trades elements each; buy_signals[i] is the entry period and      *)
(* sell_signals[i] the exit period of trades[i], the final period for a    *)
(* trade closed by force.                                                  *)
(***************************************************************************)
C21_SignalLists ==
    Returned =>
        /\ Len(report.buy_signals) = report.total_trades
        /\ Len(report.sell_signals) = report.total_trades
        /\ Len(report.trades) = report.total_trades
        /\ \A i \in TradeIndices :
            /\ At(report.buy_signals, i - 1) \in Periods
            /\ At(report.sell_signals, i - 1) \in Periods
            /\ At(report.buy_signals, i - 1) = EntryPeriod(i)
            /\ At(report.sell_signals, i - 1) = ExitPeriod(i)
            /\ report.trades[i].entry_price
                   = At(report.prices, At(report.buy_signals, i - 1))
            /\ report.trades[i].exit_price
                   = At(report.prices, At(report.sell_signals, i - 1))
            /\ report.trades[i].duration_days
                   = At(report.sell_signals, i - 1) - At(report.buy_signals, i - 1)
        /\ TargetAt(N - 1) = 1 =>
               At(report.sell_signals, report.total_trades - 1) = N - 1

\* a signal-closed trade and a trade closed by force in one report
C21_Witness ==
    /\ Returned
    /\ report.total_trades >= 2
    /\ TargetAt(N - 1) = 1
    /\ At(report.sell_signals, 0) < At(report.buy_signals, 1)
    /\ At(report.sell_signals, report.total_trades - 1) = N - 1

(***************************************************************************)
(* C22  Series alignment: equity_curve, market_equity, drawdown_curve and  *)
(* returns have data_points elements each, as many as the input has        *)
(* periods, dates and prices; element t of each is the value of period t,  *)
(* and no element is NaN.                                                  *)
(***************************************************************************)
AlignedSeries(s) ==
    /\ Len(s) = report.data_points
    /\ \A t \in Periods : ~IsNaN(At(s, t))

C22_SeriesAlignment ==
    Returned =>
        /\ report.data_points = N
        /\ Len(report.dates) = N
        /\ Len(report.prices) = N
        /\ report.dates = dates
        /\ report.prices = closes
        /\ AlignedSeries(report.equity_curve)
        /\ AlignedSeries(report.market_equity)
        /\ AlignedSeries(report.drawdown_curve)
        /\ AlignedSeries(report.returns)
        /\ \A t \in Periods :
            /\ REq(At(report.returns, t),
                   RSub(RMul(RInt(PositionAt(t)), PeriodReturnAt(t)),
                        RMul(RInt(PositionChangeAt(t)), commission)))
            /\ REq(At(report.market_equity, t),
                   RDiv(RInt(initial_capital * At(report.prices, t)),
                        RInt(At(report.prices, 0))))
            /\ t > 0 =>
                   REq(At(report.equity_curve, t),
                       RMul(At(report.equity_curve, t - 1),
                            RAdd(ROne, At(report.returns, t))))
            /\ RIsZero(At(report.drawdown_curve, t))
                   <=> IsRunningMax(report.equity_curve, t)

\* three periods or more, with a drawdown and a strategy curve that has
\* left the benchmark's
C22_Witness ==
    /\ Returned
    /\ report.data_points >= 3
    /\ \E t \in Periods : RLt(At(report.drawdown_curve, t), RZero)
    /\ ~REq(At(report.equity_curve, N - 1), At(report.market_equity, N - 1))

(***************************************************************************)
(* C23  Beta and alpha: beta is the covariance of the net returns with the *)
(* period returns over the variance of the period returns, and 1.0 when    *)
(* that variance is 0, as for constant prices; alpha is annual_return -    *)
(* beta * market_annual_return.                                            *)
(***************************************************************************)
PeriodReturns == [t \in 1..N |-> PeriodReturnAt(t - 1)]

C23_BetaAlpha ==
    Returned =>
        /\ ConstantPrice => REq(report.beta, ROne)
        /\ ~ConstantPrice =>
               REq(RMul(report.beta, VarOf(PeriodReturns)),
                   CovOf(report.returns, PeriodReturns))
        /\ REq(report.alpha.beta, report.beta)
        /\ report.alpha.annual_return = report.annual_return
        /\ report.alpha.market_annual_return = report.market_annual_return
        /\ ~AlphaIsNaN(report.alpha)

(***************************************************************************)
(* C24  Confidence ratio: 1000 times the mean of |MACD - Signal| / Close   *)
(* over the periods with Target = 1, and exactly 50 when there is none.    *)
(***************************************************************************)
LongPeriods == {t \in Periods : TargetAt(t) = 1}

StrengthAt(t) ==
    LET d == At(macd, t) - At(macd_signal, t)
    IN  RDiv(RInt(IF d < 0 THEN 0 - d ELSE d), RInt(At(closes, t)))

RECURSIVE LongStrengthSum(_)
LongStrengthSum(n) ==
    IF n = 0 THEN RZero
    ELSE IF n - 1 \in LongPeriods
         THEN RAdd(LongStrengthSum(n - 1), StrengthAt(n - 1))
         ELSE LongStrengthSum(n - 1)

C24_ConfidenceRatio ==
    Returned =>
        IF LongPeriods = {}
        THEN report.confidence_ratio = RInt(50)
        ELSE /\ ~IsNaN(report.confidence_ratio)
             /\ REq(RMul(report.confidence_ratio, RInt(Cardinality(LongPeriods))),
                    RMul(RInt(1000), LongStrengthSum(N)))

C24_Witness ==
    /\ Returned
    /\ \E t, u \in LongPeriods : At(closes, t) # At(closes, u)
    /\ \E t \in Periods \ LongPeriods : ~RIsZero(StrengthAt(t))
    /\ ~REq(report.confidence_ratio, RInt(50))

(***************************************************************************)
(* C29  Trade duration bound: a trade closed by a signal exits after its   *)
(* entry and lasts at least one period; a trade lasts 0 periods only when  *)
(* it is opened at the final period and closed there by force, and then    *)
(* its prices are equal, its loss is the two commissions, both signal      *)
(* lists end with the last index, and the equity curve and the net returns *)
(* are those of the run without that entry.                                *)
(***************************************************************************)
\* trade i is the one appended after the scan
ForceClosed(i) == i = Len(report.trades) /\ TargetAt(N - 1) = 1

\* the MACD series with the final period made flat
MacdFlatAtEnd == [macd EXCEPT ![N] = macd_signal[N]]

C29_TradeDuration ==
    Returned =>
        \A i \in TradeIndices :
            LET tr == report.trades[i]
                buy == At(report.buy_signals, i - 1)
                sell == At(report.sell_signals, i - 1)
            IN  /\ tr.duration_days >= 0
                /\ ~ForceClosed(i) => tr.duration_days >= 1 /\ sell > buy
                /\ tr.duration_days = 0 =>
                    /\ ForceClosed(i)
                    /\ buy = N - 1 /\ sell = N - 1
                    /\ At(report.buy_signals, Len(report.buy_signals) - 1) = N - 1
                    /\ At(report.sell_signals, Len(report.sell_signals) - 1) = N - 1
                    /\ tr.entry_price = tr.exit_price
                    /\ REq(tr.profit_loss,
                           RNeg(RMul(RMul(RInt(2), commission),
                                     RInt(tr.entry_price))))
                    /\ report.equity_curve = RunEquity(closes, MacdFlatAtEnd, macd_signal)
                    /\ report.returns = RunReturns(closes, MacdFlatAtEnd, macd_signal)
                /\ (ForceClosed(i) /\ buy = N - 1) => tr.duration_days = 0

C29_Witness ==
    /\ Returned
    /\ Len(report.trades) >= 2
    /\ report.trades[Len(report.trades)].duration_days = 0
    /\ report.trades[1].duration_days >= 1
    /\ \E t \in Periods : ~RIsZero(At(report.returns, t))

(***************************************************************************)
(* Concurrent invocations.  Every name run_backtest assigns is a local of  *)
(* the call (lines 14-169) and BacktestEngine holds no attribute, so two   *)
(* callers interleave by suspending one call's locals and resuming the     *)
(* other's; a step of the running call is a step of the blocks above.      *)
(***************************************************************************)
MaxCallLen == 2

Callers == {1, 2}

OtherCaller(p) == 3 - p

\* the locals of the running invocation
Frame ==
    [pc |-> pc,
     error |-> error,
     closes |-> closes,
     macd |-> macd,
     macd_signal |-> macd_signal,
     dates |-> dates,
     Target |-> Target,
     Position |-> Position,
     Returns |-> Returns,
     Strategy_Returns |-> Strategy_Returns,
     Position_Change |-> Position_Change,
     Commission_Cost |-> Commission_Cost,
     cumulative_returns |-> cumulative_returns,
     equity_curve |-> equity_curve,
     final_equity |-> final_equity,
     market_returns |-> market_returns,
     market_cumulative |-> market_cumulative,
     market_equity |-> market_equity,
     total_return |-> total_return,
     cagr |-> cagr,
     annual_return |-> annual_return,
     volatility |-> volatility,
     win_rate |-> win_rate,
     drawdown_curve |-> drawdown_curve,
     max_drawdown |-> max_drawdown,
     sharpe_ratio |-> sharpe_ratio,
     avg_trade_return |-> avg_trade_return,
     market_total_return |-> market_total_return,
     market_annual_return |-> market_annual_return,
     market_volatility |-> market_volatility,
     market_sharpe_ratio |-> market_sharpe_ratio,
     market_drawdown |-> market_drawdown,
     market_max_drawdown |-> market_max_drawdown,
     beta |-> beta,
     alpha |-> alpha,
     information_ratio |-> information_ratio,
     confidence_ratio |-> confidence_ratio,
     returns_list |-> returns_list,
     trades |-> trades,
     buy_signals |-> buy_signals,
     sell_signals |-> sell_signals,
     position_open |-> position_open,
     entry_idx |-> entry_idx,
     entry_price |-> entry_price,
     idx |-> idx,
     report |-> report]

\* faulty variant of OwnTrades: one list that every invocation appends to
SharedTrades(f) == trades

\* "trades = []" (line 107) binds a list of the call's own
OwnTrades(f) == f.trades

\* the locals of the invocation f become the running ones
Resume(f) ==
    /\ pc' = f.pc
    /\ error' = f.error
    /\ closes' = f.closes
    /\ macd' = f.macd
    /\ macd_signal' = f.macd_signal
    /\ dates' = f.dates
    /\ Target' = f.Target
    /\ Position' = f.Position
    /\ Returns' = f.Returns
    /\ Strategy_Returns' = f.Strategy_Returns
    /\ Position_Change' = f.Position_Change
    /\ Commission_Cost' = f.Commission_Cost
    /\ cumulative_returns' = f.cumulative_returns
    /\ equity_curve' = f.equity_curve
    /\ final_equity' = f.final_equity
    /\ market_returns' = f.market_returns
    /\ market_cumulative' = f.market_cumulative
    /\ market_equity' = f.market_equity
    /\ total_return' = f.total_return
    /\ cagr' = f.cagr
    /\ annual_return' = f.annual_return
    /\ volatility' = f.volatility
    /\ win_rate' = f.win_rate
    /\ drawdown_curve' = f.drawdown_curve
    /\ max_drawdown' = f.max_drawdown
    /\ sharpe_ratio' = f.sharpe_ratio
    /\ avg_trade_return' = f.avg_trade_return
    /\ market_total_return' = f.market_total_return
    /\ market_annual_return' = f.market_annual_return
    /\ market_volatility' = f.market_volatility
    /\ market_sharpe_ratio' = f.market_sharpe_ratio
    /\ market_drawdown' = f.market_drawdown
    /\ market_max_drawdown' = f.market_max_drawdown
    /\ beta' = f.beta
    /\ alpha' = f.alpha
    /\ information_ratio' = f.information_ratio
    /\ confidence_ratio' = f.confidence_ratio
    /\ returns_list' = f.returns_list
    /\ trades' = OwnTrades(f)
    /\ buy_signals' = f.buy_signals
    /\ sell_signals' = f.sell_signals
    /\ position_open' = f.position_open
    /\ entry_idx' = f.entry_idx
    /\ entry_price' = f.entry_price
    /\ idx' = f.idx
    /\ report' = f.report

\* the closes of caller p: the callers hold different price series
CallCloses(p, n) ==
    [t \in 1..n |-> IF (t + p) % 2 = 0 THEN 100 ELSE 110]

\* the StockData of a frame
DataOf(f) == <<f.closes, f.macd, f.macd_signal, f.dates>>

\* the locals of an invocation on data d that has not started
FrameAtCall(d) ==
    [pc |-> "frame", error |-> NoError,
     closes |-> d[1], macd |-> d[2], macd_signal |-> d[3], dates |-> d[4],
     Target |-> <<>>, Position |-> <<>>, Returns |-> <<>>,
     Strategy_Returns |-> <<>>, Position_Change |-> <<>>,
     Commission_Cost |-> <<>>,
     cumulative_returns |-> <<>>, equity_curve |-> <<>>,
     final_equity |-> NaN,
     market_returns |-> <<>>, market_cumulative |-> <<>>,
     market_equity |-> <<>>,
     total_return |-> NaN, cagr |-> AnnualRateZero,
     annual_return |-> AnnualRateZero,
     volatility |-> SurdZero, win_rate |-> NaN,
     drawdown_curve |-> <<>>, max_drawdown |-> NaN,
     sharpe_ratio |-> SurdZero, avg_trade_return |-> NaN,
     market_total_return |-> NaN, market_annual_return |-> AnnualRateZero,
     market_volatility |-> SurdZero, market_sharpe_ratio |-> SurdZero,
     market_drawdown |-> <<>>, market_max_drawdown |-> NaN,
     beta |-> NaN,
     alpha |-> AlphaOf(AnnualRateZero, NaN, AnnualRateZero),
     information_ratio |-> SurdZero, confidence_ratio |-> NaN,
     returns_list |-> <<>>,
     trades |-> <<>>, buy_signals |-> <<>>, sell_signals |-> <<>>,
     position_open |-> FALSE, entry_idx |-> 0, entry_price |-> 0, idx |-> 0,
     report |-> NoReport]

\* the inputs of caller p
CallData(p) ==
    UNION {{<<CallCloses(p, n), m, ConstantSeries(n, 0), DatesOf(n)>> :
                m \in [1..n -> IndicatorValues]} : n \in 0..MaxCallLen}

Finished(f) == f.pc \in {"done", "raised"}

InitConcurrent ==
    /\ FetchIdle
    /\ PageIdle
    /\ PredictIdle
    /\ caller = 1
    /\ overlapped = FALSE
    /\ \E d1 \in CallData(1), d2 \in CallData(2) :
        /\ given = <<d1, d2>>
        /\ closes = d1[1] /\ macd = d1[2] /\ macd_signal = d1[3]
        /\ dates = d1[4]
        /\ suspended = FrameAtCall(d2)
    /\ pc = "frame"
    /\ error = NoError
    /\ LocalsUnset

\* the running invocation is suspended and the other one resumed
Switch ==
    /\ ~Finished(suspended)
    /\ caller' = OtherCaller(caller)
    /\ suspended' = Frame
    /\ Resume(suspended)
    /\ overlapped' = (overlapped \/ pc \notin {"frame", "done", "raised"})
    /\ UNCHANGED <<given, fetchVars, pageVars, predictVars>>

NextConcurrent ==
    \/ BuildFrame
    \/ GenerateSignals
    \/ ComputeReturns
    \/ ApplyCommission
    \/ EquityCurve
    \/ MarketEquity
    \/ StrategyMetrics
    \/ MarketMetrics
    \/ BeginLedger
    \/ ScanStep
    \/ ForcedClose
    \/ Return
    \/ Switch

SpecConcurrent == InitConcurrent /\ [][NextConcurrent]_vars

(***************************************************************************)
(* The outcome of run_backtest on data d run alone, written as a function  *)
(* of d: the columns by the operators of lines 32-104 and the ledger by a  *)
(* recursion over the scan of lines 115-143.                               *)
(***************************************************************************)
RECURSIVE LedgerAfter(_, _, _, _)
LedgerAfter(target, c, ds, i) ==
    IF i = 0
    THEN [trades |-> <<>>, buy_signals |-> <<>>, sell_signals |-> <<>>,
          position_open |-> FALSE, entry_idx |-> 0, entry_price |-> 0]
    ELSE LET l == LedgerAfter(target, c, ds, i - 1)
             x == i - 1
             current_signal == CurrentSignal(target, x)
         IN  IF EntryCond(current_signal, l.position_open)
             THEN [l EXCEPT !.position_open = TRUE,
                            !.entry_idx = x,
                            !.entry_price = c[x + 1],
                            !.buy_signals = Append(@, x)]
             ELSE IF ExitCond(current_signal, l.position_open)
             THEN [l EXCEPT !.position_open = FALSE,
                            !.trades = Append(@,
                                TradeRecord(ds, l.entry_idx, l.entry_price,
                                            x, c[x + 1])),
                            !.sell_signals = Append(@, x)]
             ELSE l

LedgerClosed(target, c, ds) ==
    LET n == Len(c)
        l == LedgerAfter(target, c, ds, n)
    IN  IF ForcedCloseCond(l.position_open)
        THEN [l EXCEPT !.trades = Append(@,
                            TradeRecord(ds, l.entry_idx, l.entry_price,
                                        n - 1, c[n])),
                       !.sell_signals = Append(@, ForcedSellSignal(n))]
        ELSE l

ReportAlone(c, m, sg, ds) ==
    LET n == Len(c)
        target == TargetOf(m, sg)
        position == ShiftFill(target)
        returns == PctChange(c)
        change == DiffAbs(position)
        net == NetStrategyReturns(RawStrategyReturns(position, returns),
                                  CommissionCost(change))
        cumulative == CumulativeReturns(net)
        equity == EquityOf(cumulative)
        mkt_returns == FillNa(returns)
        mkt_cumulative == CumulativeReturns(returns)
        mkt_equity == EquityOf(mkt_cumulative)
        rate == AnnualRateOf(RDiv(equity[n], RInt(initial_capital)), n)
        mkt_rate == AnnualRateOf(RDiv(mkt_equity[n], RInt(initial_capital)), n)
        std == StdOf(net)
        mkt_std == StdOf(mkt_returns)
        drawdown == DrawdownCurve(cumulative)
        b == BetaOf(CovOf(FillNa(net), mkt_returns), VarOf(mkt_returns))
        active_returns == ActiveReturns(net, mkt_returns)
        ledger == LedgerClosed(target, c, ds)
    IN  [initial_capital |-> RInt(initial_capital),
         final_equity    |-> equity[n],
         total_trades    |-> Len(ledger.trades),
         win_rate        |-> WinRateOf(net),
         max_drawdown    |-> SeriesMin(drawdown),
         total_return    |-> TotalReturnOf(equity[n]),
         annual_return   |-> rate,
         cagr            |-> rate,
         volatility      |-> VolatilityOf(std),
         sharpe_ratio    |-> SharpeOf(MeanOf(net), std),
         avg_trade_return |-> AvgTradeReturnOf(change, net),
         confidence_ratio |->
             ConfidenceRatioOf(target, SignalStrength(m, sg, c)),
         market_total_return  |-> TotalReturnOf(mkt_equity[n]),
         market_annual_return |-> mkt_rate,
         market_volatility    |-> VolatilityOf(mkt_std),
         market_sharpe_ratio  |-> SharpeOf(MeanOf(mkt_returns), mkt_std),
         market_max_drawdown  |-> SeriesMin(DrawdownCurve(mkt_cumulative)),
         alpha           |-> AlphaOf(rate, b, mkt_rate),
         beta            |-> b,
         information_ratio |->
             InformationRatioOf(MeanOf(active_returns),
                                TrackingError(StdOf(active_returns))),
         drawdown_curve  |-> drawdown,
         equity_curve    |-> equity,
         market_equity   |-> mkt_equity,
         returns         |-> FillNa(net),
         dates           |-> ds,
         trades          |-> ledger.trades,
         prices          |-> c,
         buy_signals     |-> ledger.buy_signals,
         sell_signals    |-> ledger.sell_signals,
         data_points     |-> n]

\* what the caller of run_backtest(d) gets: an exception or a report
OutcomeAlone(d) ==
    IF ~FrameLengthsAgree(d[1], d[2], d[3], d[4])
    THEN [error |-> "ValueError", report |-> NoReport]
    ELSE IF LastRaises(d[1])
    THEN [error |-> "IndexError", report |-> NoReport]
    ELSE [error |-> NoError, report |-> ReportAlone(d[1], d[2], d[3], d[4])]

\* the locals of invocation p, running or suspended
FrameOfCall(p) == IF p = caller THEN Frame ELSE suspended

(***************************************************************************)
(* C25  Concurrent safety: however two invocations of run_backtest on      *)
(* their own inputs interleave, each returns the report, or raises the     *)
(* exception, of the same call run alone, and the series handed over by    *)
(* its caller still hold the values they held at the call.                 *)
(***************************************************************************)
\* what invocation f handed to its caller
OutcomeOf(f) == [error |-> f.error, report |-> f.report]

C25_ConcurrentSafety ==
    /\ \A p \in Callers : DataOf(FrameOfCall(p)) = given[p]
    \* the running invocation has just returned or raised
    /\ pc \in {"done", "raised"} =>
           [error |-> error, report |-> report] = OutcomeAlone(given[caller])
    \* both have, and the first outcome is still what it was
    /\ (pc \in {"done", "raised"} /\ Finished(suspended)) =>
           OutcomeOf(suspended) = OutcomeAlone(given[OtherCaller(caller)])

C25_Witness ==
    /\ \A p \in Callers :
            /\ FrameOfCall(p).pc = "done"
            /\ Len(FrameOfCall(p).report.trades) >= 1
    /\ overlapped
    /\ FrameOfCall(1).report.trades # FrameOfCall(2).report.trades
    /\ FrameOfCall(1).report.data_points # FrameOfCall(2).report.data_points

(***************************************************************************)
(* DataEngine._fetch_uncached (src/data/fetcher.py, lines 26-100).  A      *)
(* column is a sequence of numbers or NaN; the upstream answer of          *)
(* ticker.history is an input.                                             *)
(***************************************************************************)
MaxRows == 3

RsiPeriod == 14
SmaShortWindow == 20
SmaLongWindow == 50
EmaFastSpan == 12
EmaSlowSpan == 26
MacdSignalSpan == 9

\* str.upper() on the characters of the modelled symbols
UpperChar(ch) ==
    CASE ch = "a" -> "A"
      [] ch = "b" -> "B"
      [] OTHER -> ch

Upper(s) == [i \in DOMAIN s |-> UpperChar(s[i])]

\* Series.diff()
Diff(s) == [t \in DOMAIN s |-> IF t = 1 THEN NaN ELSE RSub(s[t], s[t - 1])]

\* the sum of the k values of s that end at t
RECURSIVE WindowSum(_, _, _)
WindowSum(s, t, k) ==
    IF k = 0 THEN RZero ELSE RAdd(WindowSum(s, t - 1, k - 1), s[t])

\* Series.rolling(window=w).mean(): NaN until w values are there, and
\* wherever the window holds a NaN
RollingMean(s, w) ==
    [t \in DOMAIN s |->
        IF t < w \/ \E u \in (t - w + 1)..t : IsNaN(s[u]) THEN NaN
        ELSE RDiv(WindowSum(s, t, w), RInt(w))]

\* Series.ewm(span=span, adjust=False).mean() of a series without NaN:
\* y[1] = x[1], y[t] = (1 - a) * y[t-1] + a * x[t] with a = 2 / (span + 1)
RECURSIVE EwmAt(_, _, _)
EwmAt(s, span, t) ==
    IF t = 1 THEN s[1]
    ELSE RAdd(RMul(RMake(FALSE, BigOf(span - 1), BigOf(span + 1)),
                   EwmAt(s, span, t - 1)),
              RMul(RMake(FALSE, BigOf(2), BigOf(span + 1)), s[t]))

EwmMean(s, span) == TupleOf([t \in DOMAIN s |-> EwmAt(s, span, t)])

\* delta.where(delta > 0, 0): NaN > 0 is false
GainOf(delta) ==
    [t \in DOMAIN delta |-> IF RLt(RZero, delta[t]) THEN delta[t] ELSE RZero]

\* -delta.where(delta < 0, 0)
LossOf(delta) ==
    [t \in DOMAIN delta |->
        IF RLt(delta[t], RZero) THEN RNeg(delta[t]) ELSE RZero]

\* 100 - (100 / (1 + gain / loss)) in floats: 0 / 0 is NaN, and x / 0 is
\* inf, which gives 100
RsiCell(gain, loss) ==
    IF IsNaN(gain) \/ IsNaN(loss) THEN NaN
    ELSE IF RIsZero(loss)
         THEN IF RIsZero(gain) THEN NaN ELSE RInt(100)
         ELSE RSub(RInt(100),
                   RDiv(RInt(100), RAdd(ROne, RDiv(gain, loss))))

\* DataEngine._calculate_rsi, lines 93-100
CalculateRsi(series) ==
    LET delta == Diff(series)
        gain == RollingMean(GainOf(delta), RsiPeriod)
        loss == RollingMean(LossOf(delta), RsiPeriod)
    IN  TupleOf([t \in DOMAIN series |-> RsiCell(gain[t], loss[t])])

\* a - b, cell by cell
SeriesSub(a, b) == TupleOf([t \in DOMAIN a |-> RSub(a[t], b[t])])

PriceColumns == {"Open", "High", "Low", "Close", "Volume"}

\* faulty variant of FillNaFrame: the frame as it is
FillNaFrameNone(d) == d

\* df.fillna(0): every column, not the index
FillNaFrame(d) ==
    [col \in DOMAIN d |->
        IF col = "index" THEN d[col] ELSE TupleOf(FillNa(d[col]))]

\* df['Volume'].astype(int) raises on NaN
AsTypeIntRaises(s) == \E t \in DOMAIN s : IsNaN(s[t])

\* dict.get(key, default); d.keys are the keys the dict holds
DictGet(d, key, default) == IF key \in d.keys THEN d[key] ELSE default

\* Series.iloc[-1]
Last(s) == s[Len(s)]

\* df['Close'].iloc[-2] if len(df) > 1 else df['Close'].iloc[-1]
PrevCloseOf(s) == IF Len(s) > 1 THEN s[Len(s) - 1] ELSE s[Len(s)]

\* (price_change / prev_close) * 100 if prev_close else 0
PriceChangePct(change, prev) ==
    IF RIsZero(prev) THEN RZero ELSE RMul(RDiv(change, prev), RInt(100))

\* the answers of ticker.history: the request fails, or a frame of n rows
\* whose Open column may hold gaps
HistoryFrames ==
    UNION {{[index |-> DatesOf(n),
             Open |-> o,
             High |-> ConstantSeries(n, RInt(110)),
             Low |-> ConstantSeries(n, RInt(100)),
             Close |-> c,
             Volume |-> ConstantSeries(n, RInt(1000))] :
                o \in [1..n -> {RInt(100), NaN}],
                c \in [1..n -> {RInt(v) : v \in CloseValues}]} :
           n \in 0..MaxRows}

HistoryAnswers ==
    {[raises |-> TRUE, frame |-> NoFetch]} \cup
    {[raises |-> FALSE, frame |-> f] : f \in HistoryFrames}

\* the answers of ticker.info: the request fails, or a dict with or
\* without the two prices
InfoDicts ==
    {[keys |-> {}, currentPrice |-> NaN, previousClose |-> NaN],
     [keys |-> {"currentPrice", "previousClose"},
      currentPrice |-> RInt(105), previousClose |-> RInt(100)],
     [keys |-> {"currentPrice", "previousClose"},
      currentPrice |-> RInt(105), previousClose |-> RZero]}

InfoAnswers ==
    {[raises |-> TRUE, dict |-> [keys |-> {}]]} \cup
    {[raises |-> FALSE, dict |-> d] : d \in InfoDicts}

FetchSymbols == {<<"a", "b">>, <<"A">>}

\* run_backtest is not under way
EngineIdle ==
    /\ pc = "idle"
    /\ error = NoError
    /\ closes = <<>> /\ macd = <<>> /\ macd_signal = <<>> /\ dates = <<>>
    /\ LocalsUnset
    /\ SingleCaller

InitFetch ==
    /\ EngineIdle
    /\ PageIdle
    /\ PredictIdle
    /\ fetch_pc = "history"
    /\ fetch_symbol \in FetchSymbols
    /\ ticker_history \in HistoryAnswers
    /\ df = NoFetch
    /\ current_price = NaN /\ prev_close = NaN
    /\ fetched = NoFetch
    /\ fetch_error = NoError

\* "except Exception as e: raise RuntimeError(...)", lines 90-91
FetchRaise ==
    /\ fetch_pc' = "raised"
    /\ fetch_error' = "RuntimeError"

\* lines 29-30
History ==
    /\ fetch_pc = "history"
    /\ IF ticker_history.raises
       THEN FetchRaise /\ df' = df
       ELSE /\ df' = ticker_history.frame
            /\ fetch_pc' = "empty"
            /\ fetch_error' = fetch_error
    /\ UNCHANGED <<fetch_symbol, ticker_history, current_price, prev_close,
                   fetched>>
    /\ UNCHANGED <<frameVars, threadVars, pageVars, predictVars>>

\* lines 32-33
CheckEmpty ==
    /\ fetch_pc = "empty"
    /\ IF df.index = <<>>
       THEN FetchRaise
       ELSE fetch_pc' = "indicators" /\ fetch_error' = fetch_error
    /\ UNCHANGED <<fetch_symbol, ticker_history, df, current_price,
                   prev_close, fetched>>
    /\ UNCHANGED <<frameVars, threadVars, pageVars, predictVars>>

\* lines 36-40
Indicators ==
    /\ fetch_pc = "indicators"
    /\ df' = df @@ [RSI |-> CalculateRsi(df.Close),
                    SMA_20 |-> TupleOf(RollingMean(df.Close, SmaShortWindow)),
                    SMA_50 |-> TupleOf(RollingMean(df.Close, SmaLongWindow)),
                    EMA_12 |-> EwmMean(df.Close, EmaFastSpan),
                    EMA_26 |-> EwmMean(df.Close, EmaSlowSpan)]
    /\ fetch_pc' = "macd"
    /\ UNCHANGED <<fetch_symbol, ticker_history, current_price, prev_close,
                   fetched, fetch_error>>
    /\ UNCHANGED <<frameVars, threadVars, pageVars, predictVars>>

\* lines 43-45
Macd ==
    /\ fetch_pc = "macd"
    /\ \E line \in {SeriesSub(df.EMA_12, df.EMA_26)} :
       \E sig \in {EwmMean(line, MacdSignalSpan)} :
        df' = df @@ [MACD |-> line,
                     MACD_Signal |-> sig,
                     MACD_Hist |-> SeriesSub(line, sig)]
    /\ fetch_pc' = "fillna"
    /\ UNCHANGED <<fetch_symbol, ticker_history, current_price, prev_close,
                   fetched, fetch_error>>
    /\ UNCHANGED <<frameVars, threadVars, pageVars, predictVars>>

\* line 48
FillNaNs ==
    /\ fetch_pc = "fillna"
    /\ df' = FillNaFrame(df)
    /\ fetch_pc' = "info"
    /\ UNCHANGED <<fetch_symbol, ticker_history, current_price, prev_close,
                   fetched, fetch_error>>
    /\ UNCHANGED <<frameVars, threadVars, pageVars, predictVars>>

\* lines 51-58: the prices of ticker.info, or the last closes when they
\* are absent or the request fails
LatestInfo ==
    /\ fetch_pc = "info"
    /\ \E info \in InfoAnswers :
        IF info.raises
        THEN /\ current_price' = Last(df.Close)
             /\ prev_close' = PrevCloseOf(df.Close)
        ELSE /\ current_price' =
                    DictGet(info.dict, "currentPrice", Last(df.Close))
             /\ prev_close' =
                    DictGet(info.dict, "previousClose", PrevCloseOf(df.Close))
    /\ fetch_pc' = "build"
    /\ UNCHANGED <<fetch_symbol, ticker_history, df, fetched, fetch_error>>
    /\ UNCHANGED <<frameVars, threadVars, pageVars, predictVars>>

\* StockData(...), lines 67-88
StockData ==
    [symbol           |-> Upper(fetch_symbol),
     current_price    |-> current_price,
     price_change     |-> RSub(current_price, prev_close),
     price_change_pct |->
         PriceChangePct(RSub(current_price, prev_close), prev_close),
     dates       |-> df.index,
     opens       |-> df.Open,
     highs       |-> df.High,
     lows        |-> df.Low,
     closes      |-> df.Close,
     volumes     |-> df.Volume,
     rsi         |-> df.RSI,
     sma_20      |-> df.SMA_20,
     sma_50      |-> df.SMA_50,
     ema_12      |-> df.EMA_12,
     ema_26      |-> df.EMA_26,
     macd        |-> df.MACD,
     macd_signal |-> df.MACD_Signal,
     macd_hist   |-> df.MACD_Hist]

\* lines 60-88
BuildStockData ==
    /\ fetch_pc = "build"
    /\ IF AsTypeIntRaises(df.Volume)
       THEN FetchRaise /\ fetched' = fetched
       ELSE /\ fetched' = StockData
            /\ fetch_pc' = "returned"
            /\ fetch_error' = fetch_error
    /\ UNCHANGED <<fetch_symbol, ticker_history, df, current_price,
                   prev_close>>
    /\ UNCHANGED <<frameVars, threadVars, pageVars, predictVars>>

NextFetch ==
    \/ History
    \/ CheckEmpty
    \/ Indicators
    \/ Macd
    \/ FillNaNs
    \/ LatestInfo
    \/ BuildStockData

SpecFetch == InitFetch /\ [][NextFetch]_vars

(***************************************************************************)
(* C26  Data-retrieval output: in every StockData the fetch returns, the   *)
(* price, volume and indicator series have the length of dates and hold    *)
(* no NaN, the indicator values that are undefined during warm-up being 0; *)
(* an empty upstream answer ends in an error and never in a StockData.     *)
(***************************************************************************)
SeriesFields ==
    {"opens", "highs", "lows", "closes", "volumes", "rsi", "sma_20",
     "sma_50", "ema_12", "ema_26", "macd", "macd_signal", "macd_hist"}

UpstreamRows ==
    IF ticker_history.raises THEN 0 ELSE Len(ticker_history.frame.index)

C26_FetchOutput ==
    /\ fetch_pc = "returned" =>
        /\ fetch_error = NoError
        /\ Len(fetched.dates) = UpstreamRows
        /\ UpstreamRows > 0
        /\ \A col \in SeriesFields :
            /\ Len(fetched[col]) = Len(fetched.dates)
            /\ \A t \in 1..Len(fetched.dates) : ~IsNaN(fetched[col][t])
        /\ \A t \in 1..Len(fetched.dates) :
            /\ t < RsiPeriod => fetched.rsi[t] = RZero
            /\ t < SmaShortWindow => fetched.sma_20[t] = RZero
            /\ t < SmaLongWindow => fetched.sma_50[t] = RZero
            /\ REq(fetched.closes[t], ticker_history.frame.Close[t])
    /\ (fetch_pc \in {"returned", "raised"} /\ UpstreamRows = 0) =>
        /\ fetch_pc = "raised"
        /\ fetch_error = "RuntimeError"
        /\ fetched = NoFetch

C26_Witness ==
    /\ fetch_pc = "returned"
    /\ Len(fetched.dates) >= 2
    /\ \E t \in 1..Len(fetched.dates) :
        /\ IsNaN(ticker_history.frame.Open[t])
        /\ fetched.opens[t] = RZero
    /\ \E t \in 1..Len(fetched.dates) : ~RIsZero(fetched.macd[t])
    /\ fetched.rsi[1] = RZero

(***************************************************************************)
(* The search history of the AI Signals page (src/pages/1_..._AI_Signals,  *)
(* lines 290-297 and 419-436).  A symbol is a sequence of characters.      *)
(***************************************************************************)
HistoryLimit == 5

SymbolChars == {"a", "A", "b", "B"}

\* the symbols add_to_history is called with
HistorySymbols ==
    {<<x>> : x \in SymbolChars} \cup {<<x, y>> : x, y \in SymbolChars}

\* "symbol in history"
InList(h, x) == \E i \in DOMAIN h : h[i] = x

\* list.remove(x): the first occurrence goes
RECURSIVE RemoveFirst(_, _)
RemoveFirst(h, x) ==
    IF h = <<>> THEN <<>>
    ELSE IF Head(h) = x THEN Tail(h)
    ELSE <<Head(h)>> \o RemoveFirst(Tail(h), x)

\* history[:n]
Take(h, n) == SubSeq(h, 1, IF Len(h) < n THEN Len(h) ELSE n)

\* faulty variant of AddToHistory: the list is not cut
AddToHistoryUncut(history, symbol) ==
    LET s == TupleOf(Upper(symbol))
        kept == IF InList(history, s) THEN RemoveFirst(history, s) ELSE history
    IN  <<s>> \o kept

\* SessionManager.add_to_history, lines 291-297
AddToHistory(history, symbol) ==
    LET s == TupleOf(Upper(symbol))
        kept == IF InList(history, s) THEN RemoveFirst(history, s) ELSE history
    IN  Take(<<s>> \o kept, HistoryLimit)

\* SessionManager.add_to_history(s)
AddToHistoryCall ==
    \E s \in HistorySymbols :
        /\ session_state' =
               [session_state EXCEPT !.search_history = AddToHistory(@, s)]
        /\ last_op' = [op |-> "add", symbol |-> s,
                       before |-> session_state.search_history]
        /\ UNCHANGED <<page_pc, pipeline, entry_state, runs>>
        /\ UNCHANGED <<frameVars, threadVars, fetchVars, predictVars>>

\* the "x" button of a history row, lines 426-429
DeleteHistoryItem ==
    \E i \in DOMAIN session_state.search_history :
        LET hist_ticker == session_state.search_history[i]
        IN  /\ InList(session_state.search_history, hist_ticker)
            /\ session_state' =
                   [session_state EXCEPT
                        !.search_history = RemoveFirst(@, hist_ticker)]
            /\ last_op' = [op |-> "delete", symbol |-> hist_ticker,
                           before |-> session_state.search_history]
            /\ UNCHANGED <<page_pc, pipeline, entry_state, runs>>
            /\ UNCHANGED <<frameVars, threadVars, fetchVars, predictVars>>

\* the "Clear History" button, lines 435-437
ClearHistory ==
    /\ session_state' = [session_state EXCEPT !.search_history = <<>>]
    /\ last_op' = [op |-> "clear", symbol |-> <<>>,
                   before |-> session_state.search_history]
    /\ UNCHANGED <<page_pc, pipeline, entry_state, runs>>
    /\ UNCHANGED <<frameVars, threadVars, fetchVars, predictVars>>

InitHistory ==
    /\ EngineIdle
    /\ FetchIdle
    /\ PageIdle
    /\ PredictIdle

NextHistory ==
    \/ AddToHistoryCall
    \/ DeleteHistoryItem
    \/ ClearHistory

SpecHistory == InitHistory /\ [][NextHistory]_vars

(***************************************************************************)
(* C28  Search history invariant: after any sequence of add_to_history,    *)
(* per-item delete and clear operations from initialize, search_history    *)
(* holds at most 5 symbols, all upper-case and pairwise distinct; right    *)
(* after add_to_history(s) the upper-cased s is first and the other        *)
(* surviving symbols are in their previous relative order.                 *)
(***************************************************************************)
LowerChars == {"a", "b"}

UpperOf(ch) == IF ch = "a" THEN "A" ELSE IF ch = "b" THEN "B" ELSE ch

IndexIn(h, x) == CHOOSE i \in DOMAIN h : h[i] = x

C28_SearchHistory ==
    LET h == session_state.search_history
    IN  /\ Len(h) <= 5
        /\ \A i \in DOMAIN h : \A k \in DOMAIN h[i] : h[i][k] \notin LowerChars
        /\ \A i, j \in DOMAIN h : i # j => h[i] # h[j]
        /\ last_op.op = "add" =>
            /\ h # <<>>
            /\ Len(h[1]) = Len(last_op.symbol)
            /\ \A k \in DOMAIN h[1] : h[1][k] = UpperOf(last_op.symbol[k])
            /\ \A i \in 2..Len(h) : InList(last_op.before, h[i])
            /\ \A i, j \in 2..Len(h) :
                i < j => IndexIn(last_op.before, h[i])
                             < IndexIn(last_op.before, h[j])
            \* only the last of a full list, or the symbol itself, is gone
            /\ \A i \in DOMAIN last_op.before :
                (last_op.before[i] # h[1] /\ i < 5) =>
                    InList(h, last_op.before[i])

C28_Witness ==
    /\ last_op.op = "add"
    /\ Len(last_op.before) = 5
    /\ ~InList(last_op.before, session_state.search_history[1])
    /\ \E k \in DOMAIN last_op.symbol : last_op.symbol[k] \in LowerChars
    /\ Len(session_state.search_history) = 5
    /\ ~InList(session_state.search_history, last_op.before[5])

(***************************************************************************)
(* run_analysis_pipeline (AI Signals page, lines 312-346) with its three   *)
(* call sites (lines 386-387, 405-407, 422-424).  Whether the data fetch   *)
(* and the prediction raise is chosen at the step that calls them.         *)
(***************************************************************************)
MaxRuns == 3

\* the text of the ticker input
PageSymbols == {<<>>, <<" ">>, <<"a">>, <<" ", "b">>, <<"a", "B">>}

\* popular_tickers, line 402
QuickTickers == {<<"A">>, <<"B">>}

\* str.strip(): the blanks at both ends go
RECURSIVE StripLeft(_)
StripLeft(s) ==
    IF s # <<>> /\ Head(s) = " " THEN StripLeft(Tail(s)) ELSE s

RECURSIVE StripRight(_)
StripRight(s) ==
    IF s # <<>> /\ s[Len(s)] = " "
    THEN StripRight(SubSeq(s, 1, Len(s) - 1))
    ELSE s

Strip(s) == StripRight(StripLeft(s))

\* symbol.strip().upper(), line 314
CleanSymbol(s) == TupleOf(Upper(Strip(s)))

\* get_stock_data(clean_symbol, ...) when the fetch succeeds: the data of
\* that symbol, marked with the run that fetched it
StockDataFor(sym, run) == [symbol |-> sym, run |-> run]

\* get_prediction, lines 261-268: the prediction for the data, or None
\* when predict raises
GetPrediction(data, raises) ==
    IF raises THEN None ELSE [symbol |-> data.symbol, run |-> data.run]

\* faulty variant of NoPrediction: a missing prediction passes
NoPredictionNever(signal) == FALSE

\* "if not ml_signal", line 330
NoPrediction(signal) == signal = None

\* SessionManager.set_data, lines 300-304
SetData(state, data, signal) ==
    [state EXCEPT !.stock_data = data,
                  !.ml_signal = signal,
                  !.current_symbol = data.symbol]

\* run_analysis_pipeline(symbol, ...) is entered
CallPipeline(s, state) ==
    /\ page_pc = "idle"
    /\ runs < MaxRuns
    /\ runs' = runs + 1
    /\ session_state' = state
    /\ entry_state' = state
    /\ pipeline' = [symbol |-> s, clean_symbol |-> CleanSymbol(s),
                    stock_data |-> None, ml_signal |-> None,
                    fetch_raised |-> FALSE, predict_raised |-> FALSE]
    /\ page_pc' = "check"
    /\ UNCHANGED last_op
    /\ UNCHANGED <<frameVars, threadVars, fetchVars, predictVars>>

\* the "Analyze Stock" button, lines 386-387
PressAnalyze == \E s \in PageSymbols : CallPipeline(s, session_state)

\* a popular ticker's button, lines 405-407
PressQuickSelect ==
    \E ticker \in QuickTickers :
        CallPipeline(ticker, [session_state EXCEPT !.current_symbol = ticker])

\* a history row's button, lines 422-424
PressHistory ==
    \E i \in DOMAIN session_state.search_history :
        LET hist_ticker == session_state.search_history[i]
        IN  CallPipeline(hist_ticker,
                [session_state EXCEPT !.current_symbol = hist_ticker])

\* lines 316-318
CheckSymbol ==
    /\ page_pc = "check"
    /\ page_pc' = IF pipeline.clean_symbol = <<>> THEN "idle" ELSE "fetch"
    /\ UNCHANGED <<session_state, pipeline, entry_state, runs, last_op>>
    /\ UNCHANGED <<frameVars, threadVars, fetchVars, predictVars>>

\* line 324, and lines 342-346 when the fetch raises
FetchData ==
    /\ page_pc = "fetch"
    /\ \E raises \in BOOLEAN :
        IF raises
        THEN /\ pipeline' = [pipeline EXCEPT !.fetch_raised = TRUE]
             /\ page_pc' = "idle"
        ELSE /\ pipeline' = [pipeline EXCEPT !.stock_data =
                                StockDataFor(pipeline.clean_symbol, runs)]
             /\ page_pc' = "predict"
    /\ UNCHANGED <<session_state, entry_state, runs, last_op>>
    /\ UNCHANGED <<frameVars, threadVars, fetchVars, predictVars>>

\* lines 328-333
Predict ==
    /\ page_pc = "predict"
    /\ \E raises \in BOOLEAN :
       \E signal \in {GetPrediction(pipeline.stock_data, raises)} :
        /\ pipeline' = [pipeline EXCEPT !.ml_signal = signal,
                                        !.predict_raised = raises]
        /\ page_pc' = IF NoPrediction(signal) THEN "idle" ELSE "set_data"
    /\ UNCHANGED <<session_state, entry_state, runs, last_op>>
    /\ UNCHANGED <<frameVars, threadVars, fetchVars, predictVars>>

\* line 336
CommitData ==
    /\ page_pc = "set_data"
    /\ session_state' =
           SetData(session_state, pipeline.stock_data, pipeline.ml_signal)
    /\ page_pc' = "history"
    /\ UNCHANGED <<pipeline, entry_state, runs, last_op>>
    /\ UNCHANGED <<frameVars, threadVars, fetchVars, predictVars>>

\* lines 337-340
CommitHistory ==
    /\ page_pc = "history"
    /\ session_state' =
           [session_state EXCEPT
                !.search_history = AddToHistory(@, pipeline.clean_symbol)]
    /\ last_op' = [op |-> "add", symbol |-> pipeline.clean_symbol,
                   before |-> session_state.search_history]
    /\ page_pc' = "idle"
    /\ UNCHANGED <<pipeline, entry_state, runs>>
    /\ UNCHANGED <<frameVars, threadVars, fetchVars, predictVars>>

InitPage ==
    /\ EngineIdle
    /\ FetchIdle
    /\ PageIdle
    /\ PredictIdle

NextPage ==
    \/ PressAnalyze
    \/ PressQuickSelect
    \/ PressHistory
    \/ CheckSymbol
    \/ FetchData
    \/ Predict
    \/ CommitData
    \/ CommitHistory

SpecPage == InitPage /\ [][NextPage]_vars

(***************************************************************************)
(* C27  The analysis pipeline is all-or-nothing on the session state: a    *)
(* run either performs set_data and add_to_history, or, for a blank        *)
(* symbol, a fetch that raises or a prediction that fails, leaves          *)
(* stock_data, ml_signal, current_symbol and search_history as they were   *)
(* at its call; so after any sequence of runs stock_data and ml_signal     *)
(* come from the same successful run.                                      *)
(***************************************************************************)
PipelineReturned == page_pc = "idle" /\ runs > 0

RunFailed ==
    \/ \A k \in DOMAIN pipeline.symbol : pipeline.symbol[k] = " "
    \/ pipeline.fetch_raised
    \/ pipeline.predict_raised

C27_AllOrNothing ==
    /\ PipelineReturned =>
        IF RunFailed
        THEN session_state = entry_state
        ELSE /\ pipeline.stock_data # None
             /\ pipeline.ml_signal # None
             /\ pipeline.stock_data.run = runs
             /\ pipeline.ml_signal.run = runs
             /\ session_state.stock_data = pipeline.stock_data
             /\ session_state.ml_signal = pipeline.ml_signal
             /\ session_state.current_symbol = pipeline.stock_data.symbol
             /\ session_state.search_history # <<>>
             /\ session_state.search_history[1] = pipeline.clean_symbol
             /\ \A i \in DOMAIN entry_state.search_history :
                    i < 5 => InList(session_state.search_history,
                                    entry_state.search_history[i])
    /\ page_pc = "idle" =>
        IF session_state.stock_data = None
        THEN session_state.ml_signal = None
        ELSE /\ session_state.ml_signal # None
             /\ session_state.ml_signal.run = session_state.stock_data.run
             /\ session_state.ml_signal.symbol = session_state.stock_data.symbol

C27_Witness ==
    /\ PipelineReturned
    /\ pipeline.predict_raised
    /\ pipeline.stock_data # None
    /\ entry_state.stock_data # None
    /\ pipeline.stock_data.symbol # entry_state.stock_data.symbol
    /\ session_state.stock_data = entry_state.stock_data
    /\ session_state.search_history # <<>>

(***************************************************************************)
(* MLEngine.predict (src/ml/predictor.py, lines 14-194): the score, the    *)
(* action and the confidence, as exact rationals.                          *)
(***************************************************************************)
RsiOversold == 30
RsiOverbought == 70
BuyScore == 2
BaseConfidence == 75
ConfidencePerPoint == 5
VeryHighConfidence == 85
HighConfidence == 70
MediumConfidence == 55

\* 0.5, the weight of the MACD histogram
Half == RMake(FALSE, BigOf(1), BigOf(2))

\* 50.0 and 98.5, the bounds of the confidence
MinConfidence == RInt(50)
MaxConfidence == RMake(FALSE, BigOf(197), BigOf(2))

\* x >= y for numbers
AtLeast(x, y) == RLt(y, x) \/ REq(x, y)

\* "s[-1] if s and len(s) > 0 else default"
LastOr(s, default) == IF Len(s) > 0 THEN s[Len(s)] ELSE default

\* lines 21-27
LatestOf(data) ==
    [rsi |-> LastOr(data.rsi, RInt(50)),
     macd |-> LastOr(data.macd, RZero),
     macd_signal |-> LastOr(data.macd_signal, RZero),
     macd_hist |-> LastOr(data.macd_hist, RZero),
     price |-> data.current_price,
     sma_20 |-> LastOr(data.sma_20, data.current_price),
     sma_50 |-> LastOr(data.sma_50, data.current_price)]

\* lines 35-42
RsiPoints(rsi) ==
    IF RLt(rsi, RInt(RsiOversold)) THEN RInt(2)
    ELSE IF RLt(RInt(RsiOverbought), rsi) THEN RInt(-2)
    ELSE RZero

\* lines 45-50
MacdPoints(line, sig) == IF RLt(sig, line) THEN ROne ELSE RInt(-1)

\* lines 53-58
TrendPoints(price, sma_50) == IF RLt(sma_50, price) THEN ROne ELSE RInt(-1)

\* lines 61-67
HistPoints(hist) ==
    IF RLt(RZero, RAbs(hist))
    THEN IF RLt(RZero, hist) THEN Half ELSE RNeg(Half)
    ELSE RZero

\* lines 70-78
CrossPoints(data, l) ==
    IF Len(data.sma_20) > 1 /\ Len(data.sma_50) > 1
    THEN LET prev_20 == data.sma_20[Len(data.sma_20) - 1]
             prev_50 == data.sma_50[Len(data.sma_50) - 1]
         IN  IF AtLeast(prev_50, prev_20) /\ RLt(l.sma_50, l.sma_20)
             THEN RInt(2)
             ELSE IF AtLeast(prev_20, prev_50) /\ RLt(l.sma_20, l.sma_50)
             THEN RInt(-2)
             ELSE RZero
    ELSE RZero

\* lines 81-89: the action
ActionOf(s) ==
    IF AtLeast(s, RInt(BuyScore)) THEN "BUY"
    ELSE IF AtLeast(RInt(0 - BuyScore), s) THEN "SELL"
    ELSE "HOLD"

\* lines 81-89: the confidence before the cap
RawConfidence(s) ==
    IF ActionOf(s) = "HOLD" THEN MinConfidence
    ELSE RAdd(RInt(BaseConfidence), RMul(RAbs(s), RInt(ConfidencePerPoint)))

\* faulty variant of CapConfidence: no cap
CapConfidenceNone(c) == c

\* min(98.5, max(50.0, confidence)), line 92
CapConfidence(c) ==
    LET low == IF RLt(MinConfidence, c) THEN c ELSE MinConfidence
    IN  IF RLt(low, MaxConfidence) THEN low ELSE MaxConfidence

\* lines 95-102
ConfidenceLevel(c) ==
    IF AtLeast(c, RInt(VeryHighConfidence)) THEN "Very High"
    ELSE IF AtLeast(c, RInt(HighConfidence)) THEN "High"
    ELSE IF AtLeast(c, RInt(MediumConfidence)) THEN "Medium"
    ELSE "Low"

\* line 105
SignalValue(a) == IF a = "BUY" THEN 1 ELSE IF a = "SELL" THEN -1 ELSE 0

\* line 142 divides by data.volumes[-2]: ZeroDivisionError when it is 0
VolumeChangeRaises(volumes) ==
    Len(volumes) > 1 /\ RIsZero(volumes[Len(volumes) - 1])

\* the series predict reads: it looks at the last value of each, and at
\* the last two of sma_20, sma_50 and volumes
SeriesUpTo2(V) == {<<>>} \cup {<<x>> : x \in V} \cup {<<x, y>> : x, y \in V}

SmaValues == {RInt(100), RInt(110)}

PredictInputs ==
    [symbol : {<<"A">>},
     current_price : {RInt(105)},
     rsi : {<<>>, <<RInt(20)>>, <<RInt(50)>>, <<RInt(80)>>, <<NaN>>},
     macd : {<<>>, <<ROne>>},
     macd_signal : {<<RZero>>},
     macd_hist : {<<>>, <<ROne>>, <<RInt(-1)>>, <<NaN>>},
     sma_20 : SeriesUpTo2(SmaValues),
     sma_50 : SeriesUpTo2(SmaValues),
     volumes : {<<>>, <<RZero, RInt(1000)>>, <<RInt(1000), RInt(2000)>>}]

InitPredict ==
    /\ EngineIdle
    /\ FetchIdle
    /\ PageIdle
    /\ predict_pc = "extract"
    /\ predict_data \in PredictInputs
    /\ PredictLocalsUnset

\* lines 21-29
Extract ==
    /\ predict_pc = "extract"
    /\ latest' = LatestOf(predict_data)
    /\ score' = RZero
    /\ predict_pc' = "rsi"
    /\ UNCHANGED <<predict_data, action, confidence, confidence_level, signal_value, prediction, predict_error>>
    /\ UNCHANGED <<frameVars, threadVars, fetchVars, pageVars>>

\* lines 35-42
ScoreRsi ==
    /\ predict_pc = "rsi"
    /\ score' = RAdd(score, RsiPoints(latest.rsi))
    /\ predict_pc' = "macd"
    /\ UNCHANGED <<predict_data, latest, action, confidence, confidence_level, signal_value, prediction, predict_error>>
    /\ UNCHANGED <<frameVars, threadVars, fetchVars, pageVars>>

\* lines 45-50
ScoreMacd ==
    /\ predict_pc = "macd"
    /\ score' = RAdd(score, MacdPoints(latest.macd, latest.macd_signal))
    /\ predict_pc' = "trend"
    /\ UNCHANGED <<predict_data, latest, action, confidence, confidence_level, signal_value, prediction, predict_error>>
    /\ UNCHANGED <<frameVars, threadVars, fetchVars, pageVars>>

\* lines 53-58
ScoreTrend ==
    /\ predict_pc = "trend"
    /\ score' = RAdd(score, TrendPoints(latest.price, latest.sma_50))
    /\ predict_pc' = "hist"
    /\ UNCHANGED <<predict_data, latest, action, confidence, confidence_level, signal_value, prediction, predict_error>>
    /\ UNCHANGED <<frameVars, threadVars, fetchVars, pageVars>>

\* lines 61-67
ScoreHist ==
    /\ predict_pc = "hist"
    /\ score' = RAdd(score, HistPoints(latest.macd_hist))
    /\ predict_pc' = "cross"
    /\ UNCHANGED <<predict_data, latest, action, confidence, confidence_level, signal_value, prediction, predict_error>>
    /\ UNCHANGED <<frameVars, threadVars, fetchVars, pageVars>>

\* lines 70-78
ScoreCross ==
    /\ predict_pc = "cross"
    /\ score' = RAdd(score, CrossPoints(predict_data, latest))
    /\ predict_pc' = "action"
    /\ UNCHANGED <<predict_data, latest, action, confidence, confidence_level, signal_value, prediction, predict_error>>
    /\ UNCHANGED <<frameVars, threadVars, fetchVars, pageVars>>

\* lines 81-92
DetermineAction ==
    /\ predict_pc = "action"
    /\ action' = ActionOf(score)
    /\ confidence' = CapConfidence(RawConfidence(score))
    /\ predict_pc' = "level"
    /\ UNCHANGED <<predict_data, latest, score, confidence_level, signal_value, prediction, predict_error>>
    /\ UNCHANGED <<frameVars, threadVars, fetchVars, pageVars>>

\* lines 95-105
EncodeSignal ==
    /\ predict_pc = "level"
    /\ confidence_level' = ConfidenceLevel(confidence)
    /\ signal_value' = SignalValue(action)
    /\ predict_pc' = "importance"
    /\ UNCHANGED <<predict_data, latest, score, action, confidence, prediction, predict_error>>
    /\ UNCHANGED <<frameVars, threadVars, fetchVars, pageVars>>

\* MLSignal(...), lines 165-194
MLSignal ==
    [action |-> action,
     signal_value |-> signal_value,
     confidence |-> confidence,
     confidence_level |-> confidence_level]

\* lines 117-194: the feature importance, then the result
ReturnSignal ==
    /\ predict_pc = "importance"
    /\ IF VolumeChangeRaises(predict_data.volumes)
       THEN /\ predict_pc' = "raised"
            /\ predict_error' = "ZeroDivisionError"
            /\ prediction' = prediction
       ELSE /\ predict_pc' = "returned"
            /\ predict_error' = predict_error
            /\ prediction' = MLSignal
    /\ UNCHANGED <<predict_data, latest, score, action, confidence,
                   confidence_level, signal_value>>
    /\ UNCHANGED <<frameVars, threadVars, fetchVars, pageVars>>

NextPredict ==
    \/ Extract
    \/ ScoreRsi
    \/ ScoreMacd
    \/ ScoreTrend
    \/ ScoreHist
    \/ ScoreCross
    \/ DetermineAction
    \/ EncodeSignal
    \/ ReturnSignal

SpecPredict == InitPredict /\ [][NextPredict]_vars

(***************************************************************************)
(* C30  Predictor output consistency: the MLSignal predict returns has     *)
(* action BUY iff the score is at least 2, SELL iff it is at most -2 and   *)
(* HOLD otherwise, with signal_value 1, -1 and 0; its confidence is in     *)
(* [50.0, 98.5]; HOLD has confidence 50.0 and level "Low"; BUY and SELL    *)
(* have confidence at least 85 and level "Very High"; the levels "High"    *)
(* and "Medium" do not occur.                                              *)
(***************************************************************************)
\* the score written from the data
ScoreOf(d) ==
    LET seen(s, default) == IF s = <<>> THEN default ELSE s[Len(s)]
        rsi == seen(d.rsi, RInt(50))
        line == seen(d.macd, RZero)
        sig == seen(d.macd_signal, RZero)
        hist == seen(d.macd_hist, RZero)
        s20 == seen(d.sma_20, d.current_price)
        s50 == seen(d.sma_50, d.current_price)
        crossed == Len(d.sma_20) >= 2 /\ Len(d.sma_50) >= 2
        p20 == d.sma_20[Len(d.sma_20) - 1]
        p50 == d.sma_50[Len(d.sma_50) - 1]
        halves ==
            (IF RLt(rsi, RInt(30)) THEN 4
             ELSE IF RLt(RInt(70), rsi) THEN -4 ELSE 0)
            + (IF RLt(sig, line) THEN 2 ELSE -2)
            + (IF RLt(s50, d.current_price) THEN 2 ELSE -2)
            + (IF RLt(RZero, hist) THEN 1
               ELSE IF RLt(hist, RZero) THEN -1 ELSE 0)
            + (IF ~crossed THEN 0
               ELSE IF (RLt(p20, p50) \/ REq(p20, p50)) /\ RLt(s50, s20)
               THEN 4
               ELSE IF (RLt(p50, p20) \/ REq(p20, p50)) /\ RLt(s20, s50)
               THEN -4 ELSE 0)
    IN  halves

C30_PredictorOutput ==
    predict_pc = "returned" =>
        LET halves == ScoreOf(predict_data)
            p == prediction
        IN  /\ p.action \in {"BUY", "SELL", "HOLD"}
            /\ p.action = "BUY" <=> halves >= 4
            /\ p.action = "SELL" <=> halves <= -4
            /\ p.action = "HOLD" <=> (halves > -4 /\ halves < 4)
            /\ p.signal_value =
                   (IF p.action = "BUY" THEN 1
                    ELSE IF p.action = "SELL" THEN -1 ELSE 0)
            /\ ~IsNaN(p.confidence)
            /\ ~RLt(p.confidence, RInt(50))
            /\ ~RLt(RMake(FALSE, BigOf(985), BigOf(10)), p.confidence)
            /\ p.action = "HOLD" =>
                /\ REq(p.confidence, RInt(50))
                /\ p.confidence_level = "Low"
            /\ p.action \in {"BUY", "SELL"} =>
                /\ ~RLt(p.confidence, RInt(85))
                /\ p.confidence_level = "Very High"
            /\ p.confidence_level \notin {"High", "Medium"}

\* a BUY at the largest score, 6.5, whose confidence the cap brought to 98.5
C30_Witness ==
    /\ predict_pc = "returned"
    /\ prediction.action = "BUY"
    /\ ScoreOf(predict_data) = 13
    /\ REq(prediction.confidence, RMake(FALSE, BigOf(985), BigOf(10)))
    /\ prediction.confidence_level = "Very High"

====
